---- MODULE Spec2Model ----
(***************************************************************************)
(* A model of the voice keyboard (mikesmullin/whisper):                    *)
(*   - lib/audio_recorder.py  AudioRecorder: capture callback, segmenter,  *)
(*     per-utterance final transcription threads, realtime preview worker  *)
(*   - whisper.py             VoiceKeyboard: hotkey, modes, agent buffer   *)
(*   - lib/keyboard_output.py KeyboardTyper: output queue, substitutions   *)
(*   - whisper/voice_keyboard.py  the v2 client's polling thread           *)
(* Strings are sequences of one-character strings.  Time is counted in     *)
(* audio frames for the recorder and in ticks for the hotkey.              *)
(***************************************************************************)
EXTENDS Integers, Sequences, FiniteSets, TLC

VARIABLES
  \* ---- AudioRecorder (lib/audio_recorder.py)
  cfg,                            \* constructor arguments (fixed after Init)
  frame_budget,                   \* how many frames the device delivers in a run
  utt_budget,                     \* how many utterances the speaker starts in a run
  nframes,                        \* frames delivered so far; the next frame's id
  cb_pc, cb_chunk, cb_speech,     \* audio_callback: position, its frame, VAD verdict
  is_paused, cancel_pending_transcriptions,
  is_recording, frames, silence_count, audio_buffer, recording_start_time,
  finals,                         \* the _transcribe_final threads, in spawn order
  rt_pc, rt_audio, rt_utt, rt_last_text,   \* _realtime_worker
  utts,                           \* history: one record per opened utterance
  \* ---- VoiceActivityDetector (lib/vad.py)
  webrtc_checks, silero_checks, speech_detected_count,
  vad_call,                       \* history: the last is_speech call, its inputs and outcome
  stream_aborted,                 \* the input stream was ended by an exception in its callback
  \* ---- VoiceKeyboard (whisper.py)
  is_listening, listening_mode, delay_timers,
  agent_buffer, agent_buffer_timer, agent_timers, dispatched,
  agent_due,                      \* the time at which each agent Timer's wait ends
  agent_procs,                    \* agent subprocesses started and not yet exited
  agent_appends,                  \* history: the transcripts appended to the buffer it holds
  last_disarm,                    \* history: the number of frames captured before the last disarm
  hk_budget,                      \* hotkey actions left in a run
  now, last_hotkey_time, pending_single_tap, presses, rotations, toggles,
  hk_pc, time_since_last,         \* handle_hotkey_press: position, its local
  tap_timers,                     \* the single-tap Timer objects, in creation order
  \* ---- KeyboardTyper (lib/keyboard_output.py)
  word_mappings, output_queue, n_enqueued,
  wk_cur, wk_todo, preview_length, last_preview_text,
  screen, exec_log, done_log, fail_budget, commit, clean, base, previews_since,
  key_log,                        \* keys injected so far for the task in hand
  fn_tokens, fn_out,              \* the pieces of a text handed to a typer function, its result
  \* ---- VoiceKeyboard of the v2 client (whisper/voice_keyboard.py)
  v2_is_listening,                \* self.is_listening
  polling_stop_event,             \* self._polling_stop_event is set
  polling_thread,                 \* self._polling_thread: 0 for None, else the thread's index
  poll_threads,                   \* every PerceptionVoicePoller started: its position
  start_timers,                   \* pending Timer(delay, self._start_polling)
  stop_pc,                        \* stop_listening: "idle", or "join" inside _stop_polling
  v2_toggles,                     \* hotkey activations so far
  delivered                       \* history: final transcripts handed to a consumer

recVars  == <<cfg, frame_budget, utt_budget, nframes, cb_pc, cb_chunk, cb_speech, is_paused,
              cancel_pending_transcriptions, is_recording, frames, silence_count,
              audio_buffer, recording_start_time, finals, rt_pc, rt_audio, rt_utt,
              rt_last_text, utts>>
ctlVars  == <<is_listening, listening_mode, delay_timers, agent_buffer,
              agent_buffer_timer, agent_timers, dispatched, agent_due, agent_procs,
              agent_appends, last_disarm>>
hkVars   == <<hk_budget, now, last_hotkey_time, pending_single_tap, presses, rotations, toggles,
              hk_pc, time_since_last, tap_timers>>
vadVars  == <<webrtc_checks, silero_checks, speech_detected_count, vad_call, stream_aborted>>
pollVars == <<v2_is_listening, polling_stop_event, polling_thread, poll_threads,
              start_timers, stop_pc, v2_toggles>>
pureVars == <<fn_tokens, fn_out, vadVars, pollVars>>
typVars  == <<word_mappings, output_queue, n_enqueued, wk_cur, wk_todo, preview_length,
              last_preview_text, screen, exec_log, done_log, fail_budget, commit,
              clean, base, previews_since, key_log, pureVars>>
vars     == <<recVars, ctlVars, hkVars, typVars, delivered>>

----------------------------------------------------------------------------
(* Bounds of the model *)
MaxFrames    == 8      \* frames delivered in the concurrency specification
MaxFramesPrv == 7      \* frames delivered in the preview specification
MaxHotkey    == 3      \* hotkey actions in the concurrency specification
MaxHotkeyPrv == 2      \* hotkey actions in the preview specification
MaxUtts      == 2      \* utterances started in the concurrency and preview specifications
MaxUttsSeg   == 1      \* utterances started in the segmenter specification
MaxFramesSeg == 68     \* frames delivered in the segmenter specification
MaxTimers    == 2      \* pending listening_state_delay timers
MaxQueue     == 2      \* queued keyboard tasks beyond which the preview worker idles
MaxPresses   == 3      \* hotkey presses in the hotkey specification
MaxTime      == 9      \* last tick of the clock in the hotkey specification
MaxTasks     == 3      \* keyboard tasks enqueued in the typer specification
MaxTokens    == 4      \* tokens in a text of the function specification
MaxFramesScr  == 4    \* frames delivered in SpecScreen
MaxHotkeyScr  == 2    \* hotkey actions in SpecScreen, SpecGate and SpecAgent
MaxFramesGate == 5    \* frames delivered in SpecGate
MaxAgentFinals == 3   \* final transcripts arriving in SpecAgent
MaxTimeAgent  == 6    \* last tick of the clock in SpecAgent
MaxFramesErr  == 6    \* frames delivered in SpecErr
MaxUttsErr    == 2    \* utterances started in SpecErr
MaxV2Toggles  == 4    \* hotkey activations of the v2 client
MaxV2Finals   == 2    \* transcriptions the v2 client's pollers hand to the typer

----------------------------------------------------------------------------
(* Small helpers *)
Last(s)   == s[Len(s)]
Front(s)  == SubSeq(s, 1, Len(s) - 1)

----------------------------------------------------------------------------
(* AudioRecorder.__init__: configuration and the quantities derived from it *)

\* Small configurations: 4 frames per second, 0.6 s of silence, 0.5 s pre-roll,
\* a minimum length of min_ms, the realtime (preview) model loaded or not.
SmallCfg(min_ms, realtime) ==
  [sample_rate |-> 1000, buffer_size |-> 250, post_ms |-> 600, pre_ms |-> 500,
   min_ms |-> min_ms, enable_realtime_transcription |-> realtime,
   type_realtime_preview |-> realtime]

\* collections.deque(maxlen=int((sample_rate // buffer_size) * pre_recording_buffer_duration))
audio_buffer_maxlen(c) == ((c.sample_rate \div c.buffer_size) * c.pre_ms) \div 1000

\* deque.append on a bounded deque: the oldest entry is evicted when full
DequeAppend(q, x, maxlen) ==
  IF maxlen = 0 THEN <<>>
  ELSE IF Len(q) < maxlen THEN Append(q, x)
  ELSE Append(SubSeq(q, 2, Len(q)), x)

----------------------------------------------------------------------------
(* Values that stand for texts in the concurrency specification *)
DigitChars   == <<"0", "1", "2", "3", "4", "5", "6", "7", "8", "9">>
UttText(k)   == <<"u", DigitChars[(k % 10) + 1]>>   \* the final model's text for the k-th closed utterance
ModelError   == <<"error">>         \* the model raised

NewTask(type, text, count, utt) ==
  [type |-> type, text |-> text, count |-> count, utt |-> utt, seq |-> n_enqueued + 1]

----------------------------------------------------------------------------
(* AudioRecorder.pause / resume *)

\* pause(): sets both flags and cancels an ongoing recording
pause ==
  /\ is_paused' = TRUE
  /\ cancel_pending_transcriptions' = TRUE
  /\ IF is_recording
       THEN /\ is_recording' = FALSE
            /\ frames' = <<>>
            /\ silence_count' = 0
            /\ utts' = [utts EXCEPT ![Len(utts)].cancelled = TRUE]
       ELSE UNCHANGED <<is_recording, frames, silence_count, utts>>
  /\ finals' = [k \in 1..Len(finals) |->
                  IF finals[k].pc # "done"
                    THEN [finals[k] EXCEPT !.cancelled = TRUE] ELSE finals[k]]
  /\ UNCHANGED audio_buffer

\* resume(): clears both flags and the pre-recording buffer
resume ==
  /\ is_paused' = FALSE
  /\ cancel_pending_transcriptions' = FALSE
  /\ audio_buffer' = <<>>
  /\ UNCHANGED <<is_recording, frames, silence_count, utts, finals>>

----------------------------------------------------------------------------
(* AudioRecorder._recording_worker.audio_callback, in two steps: up to the  *)
(* VAD verdict, and the segmenter update that follows it.                   *)

\* a frame dropped by a callback that keeps it in the pre-recording buffer
FrameDropped_buffered ==
  /\ audio_buffer' = DequeAppend(audio_buffer, nframes, audio_buffer_maxlen(cfg))
  /\ UNCHANGED <<cb_pc, cb_chunk, cb_speech>>

\* "if self.is_paused: return": nothing is appended and the VAD is not called
FrameDropped == UNCHANGED <<cb_pc, cb_chunk, cb_speech, audio_buffer>>

CallbackBegin ==
  /\ cb_pc = "idle"
  /\ nframes < frame_budget
  /\ nframes' = nframes + 1
  /\ IF is_paused
       THEN FrameDropped
       ELSE /\ audio_buffer' = DequeAppend(audio_buffer, nframes, audio_buffer_maxlen(cfg))
            /\ cb_chunk' = nframes
            \* self.vad.is_speech(audio_chunk); no new utterance once the budget is spent
            /\ \E sp \in BOOLEAN :
                 /\ (sp /\ ~is_recording) => Len(utts) < utt_budget
                 /\ cb_speech' = sp
            /\ cb_pc' = "classified"
  /\ UNCHANGED <<cfg, frame_budget, utt_budget, is_paused, cancel_pending_transcriptions, is_recording,
                 frames, silence_count, recording_start_time, finals, rt_pc, rt_audio,
                 rt_utt, rt_last_text, utts>>
  /\ UNCHANGED <<ctlVars, hkVars, typVars, delivered>>

\* the speech branch: _start_recording() when idle, then append and reset the counter
CallbackSpeech ==
  /\ cb_speech
  /\ is_recording' = TRUE
  /\ recording_start_time' = IF is_recording THEN recording_start_time ELSE cb_chunk
  /\ utts' = IF is_recording
               THEN [utts EXCEPT ![Len(utts)].last_speech = cb_chunk]
               ELSE Append(utts,   \* _start_recording(): the new utterance's history record
                      [onset |-> cb_chunk, ring |-> Len(audio_buffer),
                       last_speech |-> cb_chunk, starts |-> 1, stops |-> 0,
                       state |-> "open", close_frame |-> -1, close_silence |-> -1,
                       cancelled |-> FALSE, preview |-> FALSE, preview_typed |-> FALSE,
                       stale_preview |-> FALSE, preview_error |-> FALSE])
  /\ frames' = (Append(IF is_recording THEN frames ELSE (audio_buffer), cb_chunk))
  /\ silence_count' = 0
  /\ UNCHANGED finals

\* _stop_recording(), reached with is_recording true and fr the frames list
stop_recording(fr, sc) ==
  LET u   == Len(utts)
      dur == cb_chunk - recording_start_time
  IN  /\ is_recording' = FALSE
      /\ frames' = <<>>
      \* recording_duration < self.min_length_of_recording, durations counted in frames
      /\ IF dur * cfg.buffer_size * 1000 < cfg.min_ms * cfg.sample_rate
           THEN /\ utts' = [utts EXCEPT ![u].state = "dropped", ![u].close_frame = cb_chunk,
                                        ![u].close_silence = sc]
                /\ UNCHANGED finals
           ELSE /\ utts' = [utts EXCEPT ![u].state = "closed", ![u].close_frame = cb_chunk,
                                        ![u].close_silence = sc, ![u].stops = @ + 1]
                /\ finals' = Append(finals, [utt |-> u, audio |-> fr, pc |-> "start",
                                             text |-> <<>>, cancelled |-> FALSE,
                                             raised |-> FALSE])

\* the non-speech branch while recording
CallbackSilence ==
  /\ ~cb_speech
  /\ is_recording
  /\ silence_count' = silence_count + 1
  \* self.max_silence_chunks = int((sample_rate / buffer_size) * post_speech_silence_duration)
  /\ IF silence_count + 1 >= (cfg.sample_rate * cfg.post_ms) \div (cfg.buffer_size * 1000)
       THEN stop_recording(Append(frames, cb_chunk), silence_count + 1)
       ELSE /\ frames' = Append(frames, cb_chunk)
            /\ UNCHANGED <<is_recording, utts, finals>>
  /\ UNCHANGED recording_start_time

\* the non-speech branch while idle: nothing
CallbackIdle ==
  /\ ~cb_speech
  /\ ~is_recording
  /\ UNCHANGED <<is_recording, frames, silence_count, recording_start_time, utts, finals>>

CallbackEnd ==
  /\ cb_pc = "classified"
  /\ cb_pc' = "idle"
  /\ \/ CallbackSpeech
     \/ CallbackSilence
     \/ CallbackIdle
  /\ UNCHANGED <<cfg, frame_budget, utt_budget, nframes, cb_chunk, cb_speech, is_paused,
                 cancel_pending_transcriptions, audio_buffer, rt_pc, rt_audio, rt_utt,
                 rt_last_text>>
  /\ UNCHANGED <<ctlVars, hkVars, typVars, delivered>>

----------------------------------------------------------------------------
(* VoiceActivityDetector.is_speech: the WebRTC pre-filter, then Silero.     *)
(* Probabilities are counted in hundredths.                                *)

\* silero_sensitivity: float = 0.05
silero_sensitivity == 5

NoVadCall == [chunk |-> -1, recording |-> FALSE, coarse |-> "none", precise_err |-> FALSE,
              prob |-> 0,
              r |-> [raised |-> FALSE, silero |-> FALSE, is_speech |-> FALSE, confidence |-> 0]]

\* a second stage that accepts a probability equal to the threshold
is_speech_nonstrict(coarse, precise_err, prob) ==
  LET webrtc_speech == IF coarse = "error" THEN TRUE ELSE coarse = "speech"
  IN  IF ~webrtc_speech
        THEN [raised |-> FALSE, silero |-> FALSE, is_speech |-> FALSE, confidence |-> 0]
        ELSE IF precise_err
          THEN [raised |-> TRUE, silero |-> TRUE, is_speech |-> FALSE, confidence |-> 0]
          ELSE [raised |-> FALSE, silero |-> TRUE, is_speech |-> prob >= silero_sensitivity,
                confidence |-> prob]

\* is_speech(audio_chunk): coarse is what the WebRTC call does, precise_err whether the
\* Silero call raises, prob what it returns otherwise.  raised: the exception leaves
\* is_speech; silero: the second stage was called
is_speech(coarse, precise_err, prob) ==
  LET \* "except Exception: webrtc_speech = True  # Let Silero decide"
      webrtc_speech == IF coarse = "error" THEN TRUE ELSE coarse = "speech"
  IN  IF ~webrtc_speech
        THEN \* "return False, 0.0"
             [raised |-> FALSE, silero |-> FALSE, is_speech |-> FALSE, confidence |-> 0]
        ELSE IF precise_err
          THEN \* self.silero_vad(...) is called outside any try block
               [raised |-> TRUE, silero |-> TRUE, is_speech |-> FALSE, confidence |-> 0]
          ELSE \* "is_speech = speech_prob > self.silero_sensitivity"
               [raised |-> FALSE, silero |-> TRUE, is_speech |-> prob > silero_sensitivity,
                confidence |-> prob]

\* audio_callback up to the VAD verdict, with the detector's two stages and its counters.
\* An exception of the second stage leaves is_speech and audio_callback: the frame is in
\* the pre-recording buffer, the segmenter is not updated, and the audio library either
\* ends the stream or calls the callback again for the next frame.
CallbackVad ==
  /\ cb_pc = "idle"
  /\ ~stream_aborted
  /\ nframes < frame_budget
  /\ nframes' = nframes + 1
  /\ IF is_paused
       THEN /\ FrameDropped
            /\ UNCHANGED vadVars
       ELSE /\ audio_buffer' = DequeAppend(audio_buffer, nframes, audio_buffer_maxlen(cfg))
            /\ cb_chunk' = nframes
            \* the WebRTC call returns or raises; the Silero call raises or returns a
            \* probability: none, the threshold, just above it, certain
            /\ \E coarse \in {"speech", "silence", "error"} : \E precise_err \in BOOLEAN :
               \E prob \in {0, silero_sensitivity, silero_sensitivity + 1, 100} :
                 LET r == is_speech(coarse, precise_err, prob)
                 IN  /\ (r.is_speech /\ ~is_recording) => Len(utts) < utt_budget
                     /\ webrtc_checks' = webrtc_checks + 1
                     /\ silero_checks' = IF r.silero THEN silero_checks + 1 ELSE silero_checks
                     /\ speech_detected_count' = IF r.is_speech THEN speech_detected_count + 1
                                                                ELSE speech_detected_count
                     /\ vad_call' = [chunk |-> nframes, recording |-> is_recording,
                                     coarse |-> coarse,
                                     precise_err |-> r.silero /\ precise_err,
                                     prob |-> IF r.silero /\ ~precise_err THEN prob ELSE 0,
                                     r |-> r]
                     /\ IF r.raised
                          THEN /\ stream_aborted' \in BOOLEAN
                               /\ UNCHANGED <<cb_pc, cb_speech>>
                          ELSE /\ cb_speech' = r.is_speech
                               /\ cb_pc' = "classified"
                               /\ UNCHANGED stream_aborted
  /\ UNCHANGED <<cfg, frame_budget, utt_budget, is_paused, cancel_pending_transcriptions, is_recording,
                 frames, silence_count, recording_start_time, finals, rt_pc, rt_audio,
                 rt_utt, rt_last_text, utts>>
  /\ UNCHANGED <<fn_tokens, fn_out, pollVars>>
  /\ UNCHANGED <<word_mappings, output_queue, n_enqueued, wk_cur, wk_todo, preview_length,
                 last_preview_text, screen, exec_log, done_log, fail_budget, commit,
                 clean, base, previews_since, key_log>>
  /\ UNCHANGED <<ctlVars, hkVars, delivered>>

----------------------------------------------------------------------------
(* KeyboardTyper: the producers' side of the output queue *)

\* type_final(text): queued unless the text is empty
type_final(text, utt) ==
  IF text = <<>>
    THEN UNCHANGED <<output_queue, n_enqueued>>
    ELSE /\ output_queue' = Append(output_queue, NewTask("type_final", text, 0, utt))
         /\ n_enqueued' = n_enqueued + 1

\* type_realtime_preview(text): queued unless the text is empty
type_realtime_preview(text, utt) ==
  IF text = <<>>
    THEN UNCHANGED <<output_queue, n_enqueued>>
    ELSE /\ output_queue' = Append(output_queue, NewTask("type_preview", text, 0, utt))
         /\ n_enqueued' = n_enqueued + 1

\* type_text(text): queued unless the text is empty
type_text(text) ==
  IF text = <<>>
    THEN UNCHANGED <<output_queue, n_enqueued>>
    ELSE /\ output_queue' = Append(output_queue, NewTask("type_text", text, 0, 0))
         /\ n_enqueued' = n_enqueued + 1

----------------------------------------------------------------------------
(* VoiceKeyboard: agent buffer *)

CancelTimer(ts, id) ==
  IF id # 0 /\ ts[id] = "pending" THEN [ts EXCEPT ![id] = "cancelled"] ELSE ts

agent_buffer_timeout == 2     \* agent.buffer_timeout (2.0 s), in ticks

\* "self.agent_buffer = ''; if self.agent_buffer_timer: cancel; = None", under the lock
discard_agent_buffer ==
  /\ agent_buffer' = <<>>
  /\ agent_timers' = CancelTimer(agent_timers, agent_buffer_timer)
  /\ agent_buffer_timer' = 0
  /\ agent_appends' = <<>>
  /\ UNCHANGED <<agent_due, agent_procs>>

\* the buffer after "+= ' ' + text" with the separator left out
AppendToBuffer_unseparated(buf, text) == buf \o text

\* "if self.agent_buffer: += ' ' + text; else: = text"
AppendToBuffer(buf, text) == IF buf # <<>> THEN buf \o <<" ">> \o text ELSE text

\* handle_agent_transcription(text): append with a space separator, restart the timer
handle_agent_transcription(text) ==
  /\ agent_buffer' = AppendToBuffer(agent_buffer, text)
  /\ agent_timers' = Append(CancelTimer(agent_timers, agent_buffer_timer), "pending")
  /\ agent_due' = Append(agent_due, now + agent_buffer_timeout)
  /\ agent_buffer_timer' = Len(agent_timers) + 1
  /\ agent_appends' = Append(agent_appends,
                             [text |-> text, at |-> now, n |-> Len(agent_timers) + 1])
  /\ UNCHANGED agent_procs

\* flush_agent_buffer, the block under agent_buffer_lock: take the text, clear the buffer
take_agent_buffer(id) ==
  IF agent_buffer = <<>>
    THEN UNCHANGED <<agent_buffer, agent_buffer_timer, dispatched, agent_appends>>
    ELSE /\ dispatched' = Append(dispatched,
                [prompt |-> agent_buffer, timer |-> id, current |-> agent_buffer_timer,
                 at |-> now, appends |-> agent_appends, procs |-> agent_procs])
         /\ agent_buffer' = <<>>
         /\ agent_buffer_timer' = 0
         /\ agent_appends' = <<>>

\* flush_agent_buffer(), run by timer id when it fires, up to the subprocess's exit
flush_agent_buffer(id) ==
  /\ agent_timers[id] = "pending"
  /\ agent_timers' = [agent_timers EXCEPT ![id] = "fired"]
  /\ take_agent_buffer(id)
  /\ UNCHANGED <<agent_due, agent_procs>>

----------------------------------------------------------------------------
(* VoiceKeyboard: arming, disarming, mode rotation *)

\* start_listening(): no-op when armed; else arm and start the delayed _resume_audio
start_listening ==
  IF is_listening
    THEN UNCHANGED <<is_listening, delay_timers>>
    ELSE /\ is_listening' = TRUE
         /\ delay_timers' = Append(delay_timers, "resume")

\* stop_listening(): no-op when disarmed; else disarm, start the delayed _pause_audio,
\* discard the agent buffer
stop_listening ==
  IF ~is_listening
    THEN UNCHANGED <<is_listening, delay_timers, agent_buffer, agent_buffer_timer,
                     agent_timers, agent_due, agent_procs, agent_appends, last_disarm>>
    ELSE /\ is_listening' = FALSE
         /\ last_disarm' = nframes
         /\ delay_timers' = Append(delay_timers, "pause")
         /\ discard_agent_buffer

\* toggle_listening()
toggle_listening ==
  /\ IF is_listening
       THEN stop_listening
       ELSE start_listening /\ UNCHANGED <<agent_buffer, agent_buffer_timer, agent_timers,
                                            agent_due, agent_procs, agent_appends,
                                            last_disarm>>
  /\ UNCHANGED <<listening_mode, dispatched>>

\* a rotation that leaves a disarmed system disarmed
rotate_mode_unarmed ==
  /\ listening_mode' = IF listening_mode = "LISTEN" THEN "AGENT" ELSE "LISTEN"
  /\ discard_agent_buffer
  /\ UNCHANGED <<is_listening, delay_timers, dispatched, last_disarm>>

\* rotate_mode(): LISTEN <-> AGENT, agent buffer discarded, armed if it was disarmed
rotate_mode ==
  /\ listening_mode' = IF listening_mode = "LISTEN" THEN "AGENT" ELSE "LISTEN"
  /\ discard_agent_buffer
  /\ start_listening
  /\ UNCHANGED <<dispatched, last_disarm>>

\* the pending timers without the i-th
RemoveAt(q, i) == SubSeq(q, 1, i - 1) \o SubSeq(q, i + 1, Len(q))

\* a _resume_audio that resumes without looking at is_listening
DelayTimerRun_unchecked(i) ==
  /\ i \in 1..Len(delay_timers)
  /\ delay_timers' = RemoveAt(delay_timers, i)
  /\ IF delay_timers[i] = "resume"
       THEN resume
       ELSE IF ~is_listening
              THEN pause
              ELSE UNCHANGED <<is_paused, cancel_pending_transcriptions, audio_buffer,
                               is_recording, frames, silence_count, utts, finals>>
  /\ UNCHANGED <<cfg, frame_budget, utt_budget, nframes, cb_pc, cb_chunk, cb_speech,
                 recording_start_time, rt_pc, rt_audio, rt_utt, rt_last_text>>
  /\ UNCHANGED <<is_listening, listening_mode, agent_buffer, agent_buffer_timer,
                 agent_timers, dispatched, agent_due, agent_procs, agent_appends,
                 last_disarm>>
  /\ UNCHANGED <<hkVars, typVars, delivered>>

\* _resume_audio / _pause_audio, run by the i-th pending Timer(delay, ...)
DelayTimerRun(i) ==
  /\ i \in 1..Len(delay_timers)
  /\ delay_timers' = RemoveAt(delay_timers, i)
  /\ IF delay_timers[i] = "resume"
       THEN IF is_listening
              THEN resume
              ELSE UNCHANGED <<is_paused, cancel_pending_transcriptions, audio_buffer,
                               is_recording, frames, silence_count, utts, finals>>
       ELSE IF ~is_listening
              THEN pause
              ELSE UNCHANGED <<is_paused, cancel_pending_transcriptions, audio_buffer,
                               is_recording, frames, silence_count, utts, finals>>
  /\ UNCHANGED <<cfg, frame_budget, utt_budget, nframes, cb_pc, cb_chunk, cb_speech,
                 recording_start_time, rt_pc, rt_audio, rt_utt, rt_last_text>>
  /\ UNCHANGED <<is_listening, listening_mode, agent_buffer, agent_buffer_timer,
                 agent_timers, dispatched, agent_due, agent_procs, agent_appends,
                 last_disarm>>
  /\ UNCHANGED <<hkVars, typVars, delivered>>

\* the pending timers' threads run in any order

\* _resume_audio / _pause_audio, run by the oldest pending Timer(delay, ...)
DelayTimerFire ==
  /\ delay_timers # <<>>
  /\ delay_timers' = Tail(delay_timers)
  /\ IF Head(delay_timers) = "resume"
       THEN IF is_listening
              THEN resume
              ELSE UNCHANGED <<is_paused, cancel_pending_transcriptions, audio_buffer,
                               is_recording, frames, silence_count, utts, finals>>
       ELSE IF ~is_listening
              THEN pause
              ELSE UNCHANGED <<is_paused, cancel_pending_transcriptions, audio_buffer,
                               is_recording, frames, silence_count, utts, finals>>
  /\ UNCHANGED <<cfg, frame_budget, utt_budget, nframes, cb_pc, cb_chunk, cb_speech,
                 recording_start_time, rt_pc, rt_audio, rt_utt, rt_last_text>>
  /\ UNCHANGED <<is_listening, listening_mode, agent_buffer, agent_buffer_timer,
                 agent_timers, dispatched, agent_due, agent_procs, agent_appends,
                 last_disarm>>
  /\ UNCHANGED <<hkVars, typVars, delivered>>

\* the agent_buffer_timer thread
AgentTimerFire ==
  /\ \E id \in 1..Len(agent_timers) : flush_agent_buffer(id)
  /\ UNCHANGED <<is_listening, listening_mode, delay_timers, last_disarm>>
  /\ UNCHANGED <<recVars, hkVars, typVars, delivered>>

\* the single-tap action, reached from the hotkey (its timing: HotkeyRead and after)
Toggle ==
  /\ Len(delay_timers) < MaxTimers
  /\ hk_budget > 0
  /\ hk_budget' = hk_budget - 1
  /\ toggle_listening
  /\ UNCHANGED <<now, last_hotkey_time, pending_single_tap, presses, rotations, toggles,
                 hk_pc, time_since_last, tap_timers>>
  /\ UNCHANGED <<recVars, typVars, delivered>>

\* the double-tap action, reached from the hotkey
Rotate ==
  /\ Len(delay_timers) < MaxTimers
  /\ hk_budget > 0
  /\ hk_budget' = hk_budget - 1
  /\ rotate_mode
  /\ UNCHANGED <<now, last_hotkey_time, pending_single_tap, presses, rotations, toggles,
                 hk_pc, time_since_last, tap_timers>>
  /\ UNCHANGED <<recVars, typVars, delivered>>

----------------------------------------------------------------------------
(* VoiceKeyboard.handle_hotkey_press and the single-tap Timer, with a clock *)
(* in ticks.  The handler runs on the hotkey listener's thread and the      *)
(* Timer's function on the Timer's own thread; no lock is taken.            *)

double_tap_window == 2     \* agent.double_tap_window, in ticks

\* Timer.cancel(): stops a timer that is still waiting, no effect once it has expired
CancelTap(ts, id) ==
  IF id # 0 /\ ts[id].st = "waiting" THEN [ts EXCEPT ![id].st = "cancelled"] ELSE ts

\* handle_hotkey_press, first three statements: read the clock, remember it
HotkeyRead ==
  /\ hk_pc = "idle"
  /\ hk_budget > 0
  /\ hk_budget' = hk_budget - 1
  /\ time_since_last' = now - last_hotkey_time
  /\ last_hotkey_time' = now
  /\ presses' = Append(presses, now)
  /\ hk_pc' = "read"
  /\ UNCHANGED <<now, pending_single_tap, rotations, toggles, tap_timers>>
  /\ UNCHANGED <<recVars, ctlVars, typVars, delivered>>

\* handle_hotkey_press, the rest: cancel the pending single tap, then rotate the mode
\* (double tap) or start a new single-tap Timer
HotkeyAct ==
  /\ hk_pc = "read"
  /\ hk_pc' = "idle"
  /\ IF time_since_last < double_tap_window
       THEN /\ tap_timers' = CancelTap(tap_timers, pending_single_tap)
            /\ pending_single_tap' = 0
            /\ rotate_mode
            /\ rotations' = rotations + 1
       ELSE /\ tap_timers' = Append(CancelTap(tap_timers, pending_single_tap),
                                    [deadline |-> now + double_tap_window, st |-> "waiting"])
            /\ pending_single_tap' = Len(tap_timers) + 1
            /\ UNCHANGED rotations
            /\ UNCHANGED ctlVars
  /\ UNCHANGED <<hk_budget, now, last_hotkey_time, presses, toggles, time_since_last>>
  /\ UNCHANGED <<recVars, typVars, delivered>>

\* threading.Timer.run: the wait is over and the timer was not cancelled
TimerExpire ==
  \E i \in 1..Len(tap_timers) :
    /\ tap_timers[i].st = "waiting"
    /\ now >= tap_timers[i].deadline
    /\ tap_timers' = [tap_timers EXCEPT ![i].st = "running"]
    /\ UNCHANGED <<hk_budget, now, last_hotkey_time, pending_single_tap, presses, rotations,
                   toggles, hk_pc, time_since_last>>
    /\ UNCHANGED <<recVars, ctlVars, typVars, delivered>>

\* handle_single_tap(), the Timer's function
handle_single_tap ==
  \E i \in 1..Len(tap_timers) :
    /\ tap_timers[i].st = "running"
    /\ tap_timers' = [tap_timers EXCEPT ![i].st = "done"]
    /\ pending_single_tap' = 0
    /\ toggle_listening
    /\ toggles' = toggles + 1
    /\ UNCHANGED <<hk_budget, now, last_hotkey_time, presses, rotations, hk_pc,
                   time_since_last>>
    /\ UNCHANGED <<recVars, typVars, delivered>>

\* the clock advances; a waiting Timer expires no later than its deadline's tick
Tick ==
  /\ now < MaxTime
  /\ \A i \in 1..Len(tap_timers) :
       tap_timers[i].st = "waiting" => now < tap_timers[i].deadline
  /\ now' = now + 1
  /\ UNCHANGED <<hk_budget, last_hotkey_time, pending_single_tap, presses, rotations, toggles,
                 hk_pc, time_since_last, tap_timers>>
  /\ UNCHANGED <<recVars, ctlVars, typVars, delivered>>

----------------------------------------------------------------------------
(* AudioRecorder._transcribe_final, one thread per closed utterance, and    *)
(* VoiceKeyboard.on_final_transcription, which it calls                    *)

SetFinal(k, pc, text) == [finals EXCEPT ![k].pc = pc, ![k].text = text]

\* first check of the cancel flag, before the model is called
FinalStart(k) ==
  /\ finals[k].pc = "start"
  /\ finals' = SetFinal(k, IF cancel_pending_transcriptions THEN "done" ELSE "infer", <<>>)
  /\ UNCHANGED <<cfg, frame_budget, utt_budget, nframes, cb_pc, cb_chunk, cb_speech, is_paused,
                 cancel_pending_transcriptions, is_recording, frames, silence_count,
                 audio_buffer, recording_start_time, rt_pc, rt_audio, rt_utt,
                 rt_last_text, utts>>
  /\ UNCHANGED <<ctlVars, hkVars, typVars, delivered>>

\* a final thread that hands the error of the model on as if it were its text
FinalInferDone_error_text(k) ==
  /\ finals[k].pc = "infer"
  /\ \E text \in {<<>>, UttText(k), ModelError} :
       finals' = [SetFinal(k,
                   IF cancel_pending_transcriptions \/ text = <<>> THEN "done" ELSE "deliver",
                   IF cancel_pending_transcriptions THEN <<>> ELSE text)
                     EXCEPT ![k].raised = (text = ModelError)]
  /\ UNCHANGED <<cfg, frame_budget, utt_budget, nframes, cb_pc, cb_chunk, cb_speech, is_paused,
                 cancel_pending_transcriptions, is_recording, frames, silence_count,
                 audio_buffer, recording_start_time, rt_pc, rt_audio, rt_utt,
                 rt_last_text, utts>>
  /\ UNCHANGED <<ctlVars, hkVars, typVars, delivered>>

\* a final thread that calls on_transcription_complete with an empty text too
FinalInferDone_empty_delivered(k) ==
  /\ finals[k].pc = "infer"
  /\ \E text \in {<<>>, UttText(k), ModelError} :
       finals' = [SetFinal(k,
                   IF text = ModelError \/ cancel_pending_transcriptions
                     THEN "done" ELSE "deliver",
                   IF text = ModelError \/ cancel_pending_transcriptions
                     THEN <<>> ELSE text) EXCEPT ![k].raised = (text = ModelError)]
  /\ UNCHANGED <<cfg, frame_budget, utt_budget, nframes, cb_pc, cb_chunk, cb_speech, is_paused,
                 cancel_pending_transcriptions, is_recording, frames, silence_count,
                 audio_buffer, recording_start_time, rt_pc, rt_audio, rt_utt,
                 rt_last_text, utts>>
  /\ UNCHANGED <<ctlVars, hkVars, typVars, delivered>>

\* main_model.transcribe returns (or raises); second check of the cancel flag
FinalInferDone(k) ==
  /\ finals[k].pc = "infer"
  /\ \E text \in {<<>>, UttText(k), (<<"T", "h", "a", "n", "k", "s", ".">>), ModelError} :
       finals' = [SetFinal(k,
                   IF text = ModelError \/ cancel_pending_transcriptions \/ text = <<>>
                     THEN "done" ELSE "deliver",
                   IF text = ModelError \/ cancel_pending_transcriptions
                     THEN <<>> ELSE text) EXCEPT ![k].raised = (text = ModelError)]
  /\ UNCHANGED <<cfg, frame_budget, utt_budget, nframes, cb_pc, cb_chunk, cb_speech, is_paused,
                 cancel_pending_transcriptions, is_recording, frames, silence_count,
                 audio_buffer, recording_start_time, rt_pc, rt_audio, rt_utt,
                 rt_last_text, utts>>
  /\ UNCHANGED <<ctlVars, hkVars, typVars, delivered>>

Delivery(k, to) ==
  [k |-> k, utt |-> finals[k].utt, to |-> to, text |-> finals[k].text,
   cancelled |-> finals[k].cancelled \/ utts[finals[k].utt].cancelled]

\* a final thread that ends without calling on_transcription_complete
FinalDeliver_dropped(k) ==
  /\ finals[k].pc = "deliver"
  /\ finals' = SetFinal(k, "done", finals[k].text)
  /\ UNCHANGED <<cfg, frame_budget, utt_budget, nframes, cb_pc, cb_chunk, cb_speech, is_paused,
                 cancel_pending_transcriptions, is_recording, frames, silence_count,
                 audio_buffer, recording_start_time, rt_pc, rt_audio, rt_utt,
                 rt_last_text, utts>>
  /\ UNCHANGED <<ctlVars, hkVars, typVars, delivered>>

\* on_transcription_complete(full_text) = on_final_transcription(text)
FinalDeliver(k) ==
  /\ finals[k].pc = "deliver"
  /\ IF ~is_listening
       THEN /\ finals' = SetFinal(k, "done", finals[k].text)
            /\ UNCHANGED <<output_queue, n_enqueued, delivered>>
       ELSE IF listening_mode = "AGENT"
         THEN /\ finals' = SetFinal(k, "agent", finals[k].text)
              /\ UNCHANGED <<output_queue, n_enqueued, delivered>>
         ELSE /\ finals' = SetFinal(k, "done", finals[k].text)
              /\ type_final(finals[k].text, finals[k].utt)
              /\ delivered' = Append(delivered, Delivery(k, "typed"))
  /\ UNCHANGED <<cfg, frame_budget, utt_budget, nframes, cb_pc, cb_chunk, cb_speech, is_paused,
                 cancel_pending_transcriptions, is_recording, frames, silence_count,
                 audio_buffer, recording_start_time, rt_pc, rt_audio, rt_utt,
                 rt_last_text, utts>>
  /\ UNCHANGED <<word_mappings, wk_cur, wk_todo, preview_length, last_preview_text,
                 screen, exec_log, done_log, fail_budget, commit, clean, base,
                 previews_since, key_log, pureVars>>
  /\ UNCHANGED <<ctlVars, hkVars>>

\* handle_agent_transcription(text), entered after the mode test
FinalAgent(k) ==
  /\ finals[k].pc = "agent"
  /\ finals' = SetFinal(k, "done", finals[k].text)
  /\ handle_agent_transcription(finals[k].text)
  /\ delivered' = Append(delivered, Delivery(k, "agent"))
  /\ UNCHANGED <<cfg, frame_budget, utt_budget, nframes, cb_pc, cb_chunk, cb_speech, is_paused,
                 cancel_pending_transcriptions, is_recording, frames, silence_count,
                 audio_buffer, recording_start_time, rt_pc, rt_audio, rt_utt,
                 rt_last_text, utts>>
  /\ UNCHANGED <<is_listening, listening_mode, delay_timers, dispatched, last_disarm>>
  /\ UNCHANGED <<hkVars, typVars>>

FinalThread ==
  \E k \in 1..Len(finals) :
    \/ FinalStart(k)
    \/ FinalInferDone(k)
    \/ FinalDeliver(k)
    \/ FinalAgent(k)

----------------------------------------------------------------------------
(* AudioRecorder._realtime_worker and VoiceKeyboard.on_realtime_update      *)

\* the loop's guard passes; the current frames are concatenated for the fast model
RtPoll ==
  /\ cfg.enable_realtime_transcription      \* else the thread is never started
  /\ rt_pc = "idle"
  /\ is_recording /\ frames # <<>> /\ ~cancel_pending_transcriptions
  /\ Len(output_queue) < MaxQueue
  /\ n_enqueued < MaxTasks
  /\ rt_pc' = "infer"
  /\ rt_audio' = frames
  /\ rt_utt' = Len(utts)
  /\ UNCHANGED <<cfg, frame_budget, utt_budget, nframes, cb_pc, cb_chunk, cb_speech, is_paused,
                 cancel_pending_transcriptions, is_recording, frames, silence_count,
                 audio_buffer, recording_start_time, finals, rt_last_text, utts>>
  /\ UNCHANGED <<ctlVars, hkVars, typVars, delivered>>

\* the utterance u is the one being recorded
UttOpen(u) == u = Len(utts) /\ utts[u].state = "open" /\ ~utts[u].cancelled

\* on_realtime_update(text); the record of the utterance notes the emission and whether
\* the utterance was still open then
on_realtime_update(text) ==
  IF is_listening /\ cfg.type_realtime_preview
    THEN /\ type_realtime_preview(text, rt_utt)
         /\ utts' = [utts EXCEPT ![rt_utt].preview = TRUE, ![rt_utt].preview_typed = TRUE,
                                  ![rt_utt].stale_preview = @ \/ ~UttOpen(rt_utt)]
    ELSE /\ UNCHANGED <<output_queue, n_enqueued>>
         /\ utts' = [utts EXCEPT ![rt_utt].preview = TRUE,
                                  ![rt_utt].stale_preview = @ \/ ~UttOpen(rt_utt)]

\* realtime_model.transcribe returns (or raises); cancel check; emit if non-empty and new
RtDone ==
  /\ rt_pc = "infer"
  /\ rt_pc' = "idle"
  /\ rt_audio' = <<>>
  /\ \E text \in ({ <<"p", "1">>, <<"p", "2">> }) \cup {<<>>, ModelError} :
       IF text = ModelError
         THEN \* "except Exception": logged, then the loop goes on
              /\ utts' = [utts EXCEPT ![rt_utt].preview_error = TRUE]
              /\ UNCHANGED <<rt_last_text, output_queue, n_enqueued>>
         ELSE IF cancel_pending_transcriptions \/ text = <<>> \/ text = rt_last_text
         THEN UNCHANGED <<rt_last_text, utts, output_queue, n_enqueued>>
         ELSE /\ rt_last_text' = text
              /\ on_realtime_update(text)
  /\ UNCHANGED <<cfg, frame_budget, utt_budget, nframes, cb_pc, cb_chunk, cb_speech, is_paused,
                 cancel_pending_transcriptions, is_recording, frames, silence_count,
                 audio_buffer, recording_start_time, finals, rt_utt>>
  /\ UNCHANGED <<word_mappings, wk_cur, wk_todo, preview_length, last_preview_text,
                 screen, exec_log, done_log, fail_budget, commit, clean, base,
                 previews_since, key_log, pureVars>>
  /\ UNCHANGED <<ctlVars, hkVars, delivered>>

----------------------------------------------------------------------------
(* KeyboardTyper._apply_word_mappings.  Texts are sequences of one-character *)
(* strings; word_mappings is the dict as a sequence of entries in insertion  *)
(* order, with non-empty words.                                              *)

LowerCase == <<"a", "b", "c", "d", "e", "f", "g", "h", "i", "j", "k", "l", "m",
               "n", "o", "p", "q", "r", "s", "t", "u", "v", "w", "x", "y", "z">>
UpperCase == <<"A", "B", "C", "D", "E", "F", "G", "H", "I", "J", "K", "L", "M",
               "N", "O", "P", "Q", "R", "S", "T", "U", "V", "W", "X", "Y", "Z">>
DigitSet   == {DigitChars[i] : i \in 1..Len(DigitChars)}
SpaceChars == {" ", "\t", "\n", "\r"}                          \* \s

\* str.lower() of one character, as re.IGNORECASE compares
Lower(c) ==
  IF \E i \in 1..Len(UpperCase) : UpperCase[i] = c
    THEN LowerCase[CHOOSE i \in 1..Len(UpperCase) : UpperCase[i] = c]
    ELSE c

RECURSIVE SortedInsert(_, _)
\* m placed after every entry whose word is at least as long (the sort is stable)
SortedInsert(ms, m) ==
  IF ms = <<>> THEN <<m>>
  ELSE IF Len(Head(ms).word) >= Len(m.word)
    THEN <<Head(ms)>> \o SortedInsert(Tail(ms), m)
    ELSE <<m>> \o ms

RECURSIVE sorted_mappings(_)
\* the mappings applied in insertion order, not sorted
sorted_mappings_unsorted(wm) == wm

\* sorted(self.word_mappings.items(), key=lambda x: len(x[0]), reverse=True)
sorted_mappings(wm) ==
  IF wm = <<>> THEN <<>> ELSE SortedInsert(sorted_mappings(Front(wm)), Last(wm))

\* \b between t[p] and t[p + 1]
WordAt(t, i)   == i >= 1 /\ i <= Len(t) /\ t[i] \in
  ({LowerCase[j] : j \in 1..Len(LowerCase)} \cup {UpperCase[j] : j \in 1..Len(UpperCase)}
     \cup DigitSet \cup {"_"})
Boundary(t, p) == WordAt(t, p) # WordAt(t, p + 1)

\* rf'\b{re.escape(word)}\b' matches t at index i, ignoring case
MatchesAt(t, w, i) ==
  /\ i + Len(w) - 1 <= Len(t)
  /\ \A j \in 1..Len(w) : Lower(t[i + j - 1]) = Lower(w[j])
  /\ Boundary(t, i - 1)
  /\ Boundary(t, i + Len(w) - 1)

RECURSIVE TrailEnd(_, _)
\* the greedy [,.\s]* after index e: the last index it consumes
TrailEnd(t, e) ==
  IF e < Len(t) /\ t[e + 1] \in ({",", "."} \cup SpaceChars) THEN TrailEnd(t, e + 1) ELSE e

RECURSIVE Decimal(_)
Decimal(n) ==
  IF n < 10 THEN <<DigitChars[n + 1]>> ELSE Decimal(n \div 10) \o <<DigitChars[(n % 10) + 1]>>

MarkerPrefix == <<"<", "<", "<", "M", "A", "R", "K", "E", "R", "_">>
MarkerSuffix == <<">", ">", ">">>
\* f"<<<MARKER_{marker_counter}>>>"
Marker(n) == MarkerPrefix \o Decimal(n) \o MarkerSuffix

RECURSIVE SubFrom(_, _, _, _)
\* re.sub(pattern, replace_func, t) from index i on, with n markers issued so far:
\* every match, left to right and not overlapping, becomes the next marker
SubFrom(t, w, i, n) ==
  IF i > Len(t) THEN [text |-> <<>>, n |-> n]
  ELSE IF MatchesAt(t, w, i)
    THEN LET r == SubFrom(t, w, TrailEnd(t, i + Len(w) - 1) + 1, n + 1)
         IN  [text |-> Marker(n) \o r.text, n |-> r.n]
    ELSE LET r == SubFrom(t, w, i + 1, n)
         IN  [text |-> <<t[i]>> \o r.text, n |-> r.n]

RECURSIVE MarkAll(_, _, _)
\* the loop over sorted_mappings: the marked text and the replacement of each marker
MarkAll(ms, t, reps) ==
  IF ms = <<>> THEN [text |-> t, reps |-> reps]
  ELSE LET r == SubFrom(t, Head(ms).word, 1, Len(reps))
       IN  MarkAll(Tail(ms), r.text,
                   reps \o [k \in 1..(r.n - Len(reps)) |-> Head(ms).replacement])

HasAt(t, i, p) == i + Len(p) - 1 <= Len(t) /\ \A j \in 1..Len(p) : t[i + j - 1] = p[j]

RECURSIVE DigitsEnd(_, _)
DigitsEnd(t, e) == IF e < Len(t) /\ t[e + 1] \in DigitSet THEN DigitsEnd(t, e + 1) ELSE e

RECURSIVE SplitFrom(_, _, _)
\* re.split(r'(<<<MARKER_\d+>>>)', t): texts and markers alternate
SplitFrom(t, i, cur) ==
  IF i > Len(t) THEN <<cur>>
  ELSE LET \* r'<<<MARKER_\d+>>>' at index i: the index of its last character, 0 if no match
           d == DigitsEnd(t, i + Len(MarkerPrefix) - 1)
           e == IF HasAt(t, i, MarkerPrefix) /\ d > i + Len(MarkerPrefix) - 1
                   /\ HasAt(t, d + 1, MarkerSuffix)
                  THEN d + Len(MarkerSuffix) ELSE 0
       IN  IF e > 0
             THEN <<cur, SubSeq(t, i, e)>> \o SplitFrom(t, e + 1, <<>>)
             ELSE SplitFrom(t, i + 1, Append(cur, t[i]))

RECURSIVE ItemsOf(_, _)
\* "for part in parts": the items (none or one) that each part of the split adds
ItemsOf(parts, reps) ==
  IF parts = <<>> THEN <<>>
  ELSE LET part == Head(parts)
           ks   == {k \in 0..(Len(reps) - 1) : Marker(k) = part}
           r    == IF ks = {} THEN <<>> ELSE reps[(CHOOSE k \in ks : TRUE) + 1]
           item == IF HasAt(part, 1, MarkerPrefix)
                     THEN IF ((\E i \in 1..Len(r) : r[i] = "+") /\ Len(r) < 20)
                            THEN <<[hotkey |-> TRUE, s |-> r]>>
                          ELSE IF r # <<>> THEN <<[hotkey |-> FALSE, s |-> r]>>
                          ELSE <<>>
                     ELSE IF ~(\A i \in 1..Len(part) : part[i] \in SpaceChars)
                            THEN <<[hotkey |-> FALSE, s |-> part]>>
                            ELSE <<>>
       IN  item \o ItemsOf(Tail(parts), reps)

\* _apply_word_mappings(text): the list of strings and hotkey commands
apply_word_mappings(wm, text) ==
  IF wm = <<>> THEN <<[hotkey |-> FALSE, s |-> text]>>
  ELSE LET \* re.sub(r'\.\s*$', '', text)
           hits  == {i \in 1..Len(text) :
                       text[i] = "." /\ \A j \in (i + 1)..Len(text) : text[j] \in SpaceChars}
           t     == IF hits = {} THEN text
                    ELSE SubSeq(text, 1, (CHOOSE i \in hits : TRUE) - 1)
           r     == MarkAll(sorted_mappings(wm), t, <<>>)
           items == ItemsOf(SplitFrom(r.text, 1, <<>>), r.reps)
       IN  IF items # <<>> THEN items ELSE <<[hotkey |-> FALSE, s |-> t]>>

----------------------------------------------------------------------------
(* KeyboardTyper.should_discard *)

OuterChars == SpaceChars \cup {".", ",", "!", "?", ";", ":"}      \* [\s\.,!?;:]

RECURSIVE StripLeft(_, _)
StripLeft(t, cs) == IF t # <<>> /\ Head(t) \in cs THEN StripLeft(Tail(t), cs) ELSE t

RECURSIVE StripRight(_, _)
StripRight(t, cs) == IF t # <<>> /\ Last(t) \in cs THEN StripRight(Front(t), cs) ELSE t

\* re.sub(r'^[\s\.,!?;:]+|[\s\.,!?;:]+$', '', text.lower().strip())
normalize(t) ==
  LET stripped == StripRight(StripLeft(([i \in 1..Len(t) |-> Lower(t[i])]), SpaceChars), SpaceChars)
  IN  StripRight(StripLeft(stripped, OuterChars), OuterChars)

\* should_discard(text), with DEFAULT_DISCARD_PHRASES
should_discard(t) ==
  IF t = <<>> THEN TRUE
  ELSE normalize(t) \in { <<"t", "h", "a", "n", "k", " ", "y", "o", "u">>,
                          <<"t", "h", "a", "n", "k", "s">>,
                          <<"y", "o", "u">> }

----------------------------------------------------------------------------
(* KeyboardTyper: the queue worker.  A task is executed as the list of key   *)
(* injections (and updates of the preview state) that its _do_ method makes, *)
(* one per step.                                                             *)

NoTask   == [type |-> "none", text |-> <<>>, count |-> 0, utt |-> 0, seq |-> 0]
NoOut    == [fn |-> "none"]

KeyOp(op, key, grp) == [op |-> op, key |-> key, grp |-> grp]
InjectOps == {"char", "bs", "press", "release"}     \* controller.press / release

\* key_map: the names that stand for the same pynput Key
KeyName(k) ==
  IF k = <<"c", "o", "n", "t", "r", "o", "l">> THEN <<"c", "t", "r", "l">>
  ELSE IF k \in {<<"w", "i", "n">>, <<"s", "u", "p", "e", "r">>} THEN <<"c", "m", "d">>
  ELSE IF k = <<"e", "s", "c", "a", "p", "e">> THEN <<"e", "s", "c">>
  ELSE k

RECURSIVE SplitPlus(_, _)
\* hotkey_str.lower().split('+')
SplitPlus(t, cur) ==
  IF t = <<>> THEN <<cur>>
  ELSE IF Head(t) = "+" THEN <<cur>> \o SplitPlus(Tail(t), <<>>)
  ELSE SplitPlus(Tail(t), Append(cur, Lower(Head(t))))

\* _execute_hotkey(hotkey_str): press every key in order, release them in reverse
execute_hotkey(h, grp) ==
  LET keys == SplitPlus(h, <<>>)
  IN  [i \in 1..Len(keys) |-> KeyOp("press", KeyName(keys[i]), grp)]
        \o [i \in 1..Len(keys) |-> KeyOp("release", KeyName(keys[Len(keys) + 1 - i]), grp)]

\* "for char in item: self._type_char(char)"
TypeChars(t, grp) == [i \in 1..Len(t) |-> KeyOp("char", <<t[i]>>, grp)]

RECURSIVE ItemOps_chords_first(_, _)
\* the chords of the items executed before any of their text is typed
ItemOps_chords_first(items, grp) ==
  IF items = <<>> THEN <<>>
  ELSE IF Head(items).hotkey
    THEN execute_hotkey(Head(items).s, grp) \o ItemOps_chords_first(Tail(items), grp + 1)
    ELSE ItemOps_chords_first(Tail(items), grp + 1) \o TypeChars(Head(items).s, grp)

RECURSIVE ItemOps(_, _)
\* "for item in processed_items": a chord for a hotkey item, characters for a string
ItemOps(items, grp) ==
  IF items = <<>> THEN <<>>
  ELSE (IF Head(items).hotkey THEN execute_hotkey(Head(items).s, grp)
                              ELSE TypeChars(Head(items).s, grp))
         \o ItemOps(Tail(items), grp + 1)

\* _do_type_text(text)
do_type_text(text) == ItemOps(apply_word_mappings(word_mappings, text), 1)

\* a retraction that stops one backspace short
do_press_backspace_short(count) == [i \in 1..(count - 1) |-> KeyOp("bs", <<>>, 0)]

\* _do_press_backspace(count)
do_press_backspace(count) == [i \in 1..count |-> KeyOp("bs", <<>>, 0)]

\* _do_type_realtime_preview(text): retract the previous preview, type the new one raw,
\* remember its length
do_type_realtime_preview(text) ==
  (IF preview_length > 0
     THEN do_press_backspace(preview_length) \o <<KeyOp("reset", <<>>, 0)>>
     ELSE <<>>)
    \o TypeChars(text, 1)
    \o <<KeyOp("setprev", text, 0)>>

\* _do_type_final(text): retract the preview, type the substituted text, then a space
do_type_final(text) ==
  (IF preview_length > 0
     THEN do_press_backspace(preview_length) \o <<KeyOp("reset_all", <<>>, 0)>>
     ELSE <<>>)
    \o do_type_text(text)
    \o TypeChars(<<" ">>, 0)

\* the dispatch on task["type"] in _queue_worker_loop
TaskOps(task) ==
  CASE task.type = "type_text"    -> do_type_text(task.text)
    [] task.type = "type_final"   -> do_type_final(task.text)
    [] task.type = "type_preview" -> do_type_realtime_preview(task.text)
    [] task.type = "backspace"    -> do_press_backspace(task.count)
    [] OTHER                      -> <<>>

\* a queue that hands out the newest task first
QueueGet_newest(q) == [task |-> Last(q), rest |-> Front(q)]

\* self._output_queue.get(): the oldest task, and the queue without it
QueueGet(q) == [task |-> Head(q), rest |-> Tail(q)]

\* the task's seq is noted when one of its keys is injected next to another task's
Logged(log, seq) == IF log # <<>> /\ Last(log) = seq THEN log ELSE Append(log, seq)

WorkerTake ==
  /\ wk_cur = NoTask
  /\ output_queue # <<>>
  /\ wk_cur' = QueueGet(output_queue).task
  /\ output_queue' = QueueGet(output_queue).rest
  /\ wk_todo' = TaskOps(QueueGet(output_queue).task)
  /\ key_log' = <<>>
  /\ UNCHANGED <<word_mappings, n_enqueued, preview_length, last_preview_text, screen,
                 exec_log, done_log, fail_budget, commit, clean, base, previews_since, pureVars>>
  /\ UNCHANGED <<recVars, ctlVars, hkVars, delivered>>

\* the next injection (or preview-state update) of the task in hand succeeds
WorkerKey ==
  /\ wk_todo # <<>>
  /\ LET o == Head(wk_todo) IN
       /\ screen' = CASE o.op = "char" -> Append(screen, o.key[1])
                      [] o.op = "bs"   -> IF screen = <<>> THEN <<>> ELSE Front(screen)
                      [] OTHER         -> screen
       /\ preview_length' = CASE o.op \in {"reset", "reset_all"} -> 0
                              [] o.op = "setprev"                -> Len(o.key)
                              [] OTHER                           -> preview_length
       /\ last_preview_text' = CASE o.op = "reset_all" -> <<>>
                                 [] o.op = "setprev"   -> o.key
                                 [] OTHER              -> last_preview_text
       /\ exec_log' = IF o.op \in InjectOps THEN Logged(exec_log, wk_cur.seq) ELSE exec_log
       /\ key_log' = IF o.op \in InjectOps THEN Append(key_log, [op |-> o.op, key |-> o.key])
                                             ELSE key_log
  /\ wk_todo' = Tail(wk_todo)
  /\ UNCHANGED <<word_mappings, output_queue, n_enqueued, wk_cur, done_log, fail_budget,
                 commit, clean, base, previews_since, pureVars>>
  /\ UNCHANGED <<recVars, ctlVars, hkVars, delivered>>

RECURSIVE DropWhile(_, _, _)
\* what is left of ops once the leading ops of kinds ks and group grp are abandoned
DropWhile(ops, ks, grp) ==
  IF ops # <<>> /\ Head(ops).op \in ks /\ Head(ops).grp = grp
    THEN DropWhile(Tail(ops), ks, grp) ELSE ops

\* a failed injection that abandons what is left of the task
WorkerKeyFail_abandon ==
  /\ wk_todo # <<>>
  /\ fail_budget > 0
  /\ Head(wk_todo).op \in InjectOps
  /\ fail_budget' = fail_budget - 1
  /\ clean' = FALSE
  /\ exec_log' = Logged(exec_log, wk_cur.seq)
  /\ wk_todo' = <<>>
  /\ UNCHANGED <<word_mappings, output_queue, n_enqueued, wk_cur, preview_length,
                 last_preview_text, screen, done_log, commit, base, previews_since, key_log, pureVars>>
  /\ UNCHANGED <<recVars, ctlVars, hkVars, delivered>>

\* the next injection raises: _type_char skips the character, _do_press_backspace and
\* _execute_hotkey abandon the rest of their keys
WorkerKeyFail ==
  /\ wk_todo # <<>>
  /\ fail_budget > 0
  /\ Head(wk_todo).op \in InjectOps
  /\ fail_budget' = fail_budget - 1
  /\ clean' = FALSE
  /\ exec_log' = Logged(exec_log, wk_cur.seq)
  /\ LET o == Head(wk_todo) IN
       wk_todo' = CASE o.op = "char" -> Tail(wk_todo)
                    [] o.op = "bs"   -> DropWhile(wk_todo, {"bs"}, o.grp)
                    [] OTHER         -> DropWhile(wk_todo, {"press", "release"}, o.grp)
  /\ UNCHANGED <<word_mappings, output_queue, n_enqueued, wk_cur, preview_length,
                 last_preview_text, screen, done_log, commit, base, previews_since, key_log, pureVars>>
  /\ UNCHANGED <<recVars, ctlVars, hkVars, delivered>>

\* the _do_ method has returned: task_done()
WorkerDone ==
  /\ wk_cur # NoTask
  /\ wk_todo = <<>>
  /\ wk_cur' = NoTask
  /\ done_log' = Append(done_log, wk_cur.seq)
  /\ key_log' = <<>>
  /\ IF wk_cur.type = "type_final"
       THEN /\ commit' = [base |-> base, text |-> wk_cur.text, screen |-> screen,
                          clean |-> clean, previews |-> previews_since, n |-> commit.n + 1,
                          log |-> key_log]
            /\ base' = screen
            /\ clean' = TRUE
            /\ previews_since' = 0
       ELSE /\ clean' = (clean /\ wk_cur.type = "type_preview")
            /\ previews_since' = previews_since + (IF wk_cur.type = "type_preview" THEN 1 ELSE 0)
            /\ UNCHANGED <<commit, base>>
  /\ UNCHANGED <<word_mappings, output_queue, n_enqueued, wk_todo, preview_length,
                 last_preview_text, screen, exec_log, fail_budget, pureVars>>
  /\ UNCHANGED <<recVars, ctlVars, hkVars, delivered>>

----------------------------------------------------------------------------
(* The v2 client (whisper/voice_keyboard.py): the hotkey arms and disarms,   *)
(* a timer starts the polling thread, stop_listening stops and joins it     *)

\* VoiceKeyboard.__init__ of the v2 client
InitPoller ==
  /\ v2_is_listening = FALSE
  /\ polling_stop_event = FALSE
  /\ polling_thread = 0
  /\ poll_threads = <<>>
  /\ start_timers = 0
  /\ stop_pc = "idle"
  /\ v2_toggles = 0

typerRest == <<word_mappings, wk_cur, wk_todo, preview_length, last_preview_text, screen,
               exec_log, done_log, fail_budget, commit, clean, base, previews_since, key_log,
               fn_tokens, fn_out, vadVars>>

\* toggle_listening -> start_listening (the server is running): armed, the read marker
\* set, and _start_polling put on a timer
V2StartListening ==
  /\ stop_pc = "idle"
  /\ v2_toggles < MaxV2Toggles
  /\ ~v2_is_listening
  /\ v2_is_listening' = TRUE
  /\ start_timers' = start_timers + 1
  /\ v2_toggles' = v2_toggles + 1
  /\ UNCHANGED <<polling_stop_event, polling_thread, poll_threads, stop_pc>>
  /\ UNCHANGED <<output_queue, n_enqueued, typerRest>>
  /\ UNCHANGED <<recVars, ctlVars, hkVars, delivered>>

\* toggle_listening -> stop_listening: disarmed, then _stop_polling sets the stop event
\* and joins self._polling_thread if there is one
V2StopListening ==
  /\ stop_pc = "idle"
  /\ v2_toggles < MaxV2Toggles
  /\ v2_is_listening
  /\ v2_is_listening' = FALSE
  /\ polling_stop_event' = TRUE
  /\ stop_pc' = IF polling_thread # 0 THEN "join" ELSE "idle"
  /\ v2_toggles' = v2_toggles + 1
  /\ UNCHANGED <<polling_thread, poll_threads, start_timers>>
  /\ UNCHANGED <<output_queue, n_enqueued, typerRest>>
  /\ UNCHANGED <<recVars, ctlVars, hkVars, delivered>>

\* self._polling_thread.join(timeout=1.0) returns: the thread has finished, or the
\* second has passed with the thread still inside get_transcriptions();
\* self._polling_thread = None
V2JoinReturn ==
  /\ stop_pc = "join"
  /\ poll_threads[polling_thread] \in {"dead", "fetch"}
  /\ stop_pc' = "idle"
  /\ polling_thread' = 0
  /\ UNCHANGED <<v2_is_listening, polling_stop_event, poll_threads, start_timers, v2_toggles>>
  /\ UNCHANGED <<output_queue, n_enqueued, typerRest>>
  /\ UNCHANGED <<recVars, ctlVars, hkVars, delivered>>

\* a Timer(delay, self._start_polling) fires.  _start_polling: nothing when disarmed;
\* else the stop event is cleared and a new thread started and kept in _polling_thread
V2TimerFire ==
  /\ start_timers > 0
  /\ start_timers' = start_timers - 1
  /\ IF ~v2_is_listening
       THEN UNCHANGED <<polling_stop_event, poll_threads, polling_thread>>
       ELSE /\ polling_stop_event' = FALSE
            /\ poll_threads' = Append(poll_threads, "check")
            /\ polling_thread' = Len(poll_threads) + 1
  /\ UNCHANGED <<v2_is_listening, stop_pc, v2_toggles>>
  /\ UNCHANGED <<output_queue, n_enqueued, typerRest>>
  /\ UNCHANGED <<recVars, ctlVars, hkVars, delivered>>

\* _polling_loop: "while not self._polling_stop_event.is_set() and self.is_listening"
PollCheck(i) ==
  /\ poll_threads[i] = "check"
  /\ poll_threads' = [poll_threads EXCEPT
                        ![i] = IF ~polling_stop_event /\ v2_is_listening THEN "fetch" ELSE "dead"]
  /\ UNCHANGED <<v2_is_listening, polling_stop_event, polling_thread, start_timers, stop_pc,
                 v2_toggles>>
  /\ UNCHANGED <<output_queue, n_enqueued, typerRest>>
  /\ UNCHANGED <<recVars, ctlVars, hkVars, delivered>>

\* _polling_loop: get_transcriptions() returns texts (here none, or "Hi."); a text is
\* typed with type_final if still armed and not discarded
PollFetch(i) ==
  /\ poll_threads[i] = "fetch"
  /\ poll_threads' = [poll_threads EXCEPT ![i] = "wait"]
  /\ \E text \in (IF n_enqueued < MaxV2Finals THEN {<<>>, <<"H", "i", ".">>} ELSE {<<>>}) :
       IF v2_is_listening /\ text # <<>> /\ ~should_discard(normalize(text))
         THEN type_final(text, 0)
         ELSE UNCHANGED <<output_queue, n_enqueued>>
  /\ UNCHANGED <<v2_is_listening, polling_stop_event, polling_thread, start_timers, stop_pc,
                 v2_toggles>>
  /\ UNCHANGED typerRest
  /\ UNCHANGED <<recVars, ctlVars, hkVars, delivered>>

\* _polling_loop: self._polling_stop_event.wait(interval) returns
PollWait(i) ==
  /\ poll_threads[i] = "wait"
  /\ poll_threads' = [poll_threads EXCEPT ![i] = "check"]
  /\ UNCHANGED <<v2_is_listening, polling_stop_event, polling_thread, start_timers, stop_pc,
                 v2_toggles>>
  /\ UNCHANGED <<output_queue, n_enqueued, typerRest>>
  /\ UNCHANGED <<recVars, ctlVars, hkVars, delivered>>

----------------------------------------------------------------------------
(* Initial states *)

\* AudioRecorder.__init__ then VoiceKeyboard.start(): started, then pause()
InitRecorder(c, budget, ubudget) ==
  /\ cfg = c
  /\ frame_budget = budget
  /\ utt_budget = ubudget
  /\ nframes = 0
  /\ cb_pc = "idle" /\ cb_chunk = 0 /\ cb_speech = FALSE
  /\ webrtc_checks = 0 /\ silero_checks = 0 /\ speech_detected_count = 0
  /\ vad_call = NoVadCall
  /\ stream_aborted = FALSE
  /\ InitPoller
  /\ is_paused = TRUE
  /\ cancel_pending_transcriptions = TRUE
  /\ is_recording = FALSE
  /\ frames = <<>>
  /\ silence_count = 0
  /\ audio_buffer = <<>>
  /\ recording_start_time = 0
  /\ finals = <<>>
  /\ rt_pc = "idle" /\ rt_audio = <<>> /\ rt_utt = 0 /\ rt_last_text = <<>>
  /\ utts = <<>>

\* VoiceKeyboard.__init__
InitController ==
  /\ is_listening = FALSE
  /\ listening_mode = "LISTEN"
  /\ delay_timers = <<>>
  /\ agent_buffer = <<>>
  /\ agent_buffer_timer = 0
  /\ agent_timers = <<>>
  /\ dispatched = <<>>
  /\ agent_due = <<>>
  /\ agent_procs = 0
  /\ agent_appends = <<>>
  /\ last_disarm = 0

StartTime == 2         \* time.time() at start-up, in ticks: at least double_tap_window after 0.0

InitHotkey(budget) ==
  /\ hk_budget = budget
  /\ now = StartTime
  /\ last_hotkey_time = 0
  /\ pending_single_tap = 0
  /\ presses = <<>>
  /\ rotations = 0
  /\ toggles = 0
  /\ hk_pc = "idle"
  /\ time_since_last = 0
  /\ tap_timers = <<>>

\* KeyboardTyper.__init__
InitTyper(wm, fb) ==
  /\ word_mappings = wm
  /\ output_queue = <<>>
  /\ n_enqueued = 0
  /\ wk_cur = NoTask
  /\ wk_todo = <<>>
  /\ preview_length = 0
  /\ last_preview_text = <<>>
  /\ screen = <<>>
  /\ exec_log = <<>>
  /\ done_log = <<>>
  /\ fail_budget = fb
  /\ commit = [base |-> <<>>, text |-> <<>>, screen |-> <<>>, clean |-> FALSE,
               previews |-> 0, n |-> 0, log |-> <<>>]
  /\ clean = TRUE
  /\ base = <<>>
  /\ previews_since = 0
  /\ key_log = <<>>
  /\ fn_tokens = <<>>
  /\ fn_out = NoOut

----------------------------------------------------------------------------
(* Spec: the recorder's capture and final threads with the controller, in a *)
(* small configuration without the realtime model                          *)

Init ==
  /\ InitRecorder(SmallCfg(500, FALSE), MaxFrames, MaxUtts)
  /\ InitController
  /\ InitHotkey(MaxHotkey)
  /\ InitTyper(<<>>, 0)
  /\ delivered = <<>>

Next ==
  \/ CallbackBegin
  \/ CallbackEnd
  \/ FinalThread
  \/ Toggle
  \/ Rotate
  \/ DelayTimerFire
  \/ AgentTimerFire

Spec == Init /\ [][Next]_vars

----------------------------------------------------------------------------
(* SpecPreview: the same with the realtime preview worker running and a     *)
(* minimum length of 1.1 s                                                 *)

InitPreview ==
  /\ InitRecorder(SmallCfg(1100, TRUE), MaxFramesPrv, MaxUtts)
  /\ InitController
  /\ InitHotkey(MaxHotkeyPrv)
  /\ InitTyper(<<>>, 0)
  /\ delivered = <<>>

NextPreview ==
  \/ CallbackBegin
  \/ CallbackEnd
  \/ RtPoll
  \/ RtDone
  \/ FinalThread
  \/ Toggle
  \/ Rotate
  \/ DelayTimerFire
  \/ AgentTimerFire

SpecPreview == InitPreview /\ [][NextPreview]_vars

----------------------------------------------------------------------------
(* SpecScreen: SpecPreview with the typer's worker thread running, so that   *)
(* previews and finals reach the screen                                     *)

InitScreen ==
  /\ InitRecorder(SmallCfg(500, TRUE), MaxFramesScr, MaxUttsSeg)
  /\ InitController
  /\ InitHotkey(MaxHotkeyScr)
  /\ InitTyper(<<>>, 0)
  /\ delivered = <<>>

NextScreen ==
  \/ CallbackBegin
  \/ CallbackEnd
  \/ RtPoll
  \/ RtDone
  \/ FinalThread
  \/ Toggle
  \/ Rotate
  \/ DelayTimerFire
  \/ AgentTimerFire
  \/ WorkerTake
  \/ WorkerKey
  \/ WorkerDone

SpecScreen == InitScreen /\ [][NextScreen]_vars

----------------------------------------------------------------------------
(* SpecGate: Spec with fewer frames and hotkey actions, for the pause gate   *)
(* of the audio callback                                                    *)

InitGate ==
  /\ InitRecorder(SmallCfg(500, FALSE), MaxFramesGate, MaxUttsSeg)
  /\ InitController
  /\ InitHotkey(MaxHotkeyScr)
  /\ InitTyper(<<>>, 0)
  /\ delivered = <<>>

SpecGate == InitGate /\ [][Next]_vars

----------------------------------------------------------------------------
(* SpecAgent: the agent buffer with a clock.  Final transcripts arrive in    *)
(* AGENT mode, the flush Timer's thread expires, takes the buffer under the *)
(* lock and runs the subprocess, while the hotkey disarms and rotates.      *)

InitAgent ==
  /\ InitRecorder(SmallCfg(500, FALSE), 0, 0)
  /\ InitController
  /\ InitHotkey(MaxHotkeyScr)
  /\ InitTyper(<<>>, 0)
  /\ delivered = <<>>

\* on_final_transcription(text) while armed in AGENT mode: handle_agent_transcription
AgentTranscript ==
  /\ is_listening /\ listening_mode = "AGENT"
  /\ Len(agent_timers) < MaxAgentFinals
  /\ \E text \in ({ <<"r", "u", "n">>, <<"g", "o">> }) : handle_agent_transcription(text)
  /\ UNCHANGED <<is_listening, listening_mode, delay_timers, dispatched, last_disarm>>
  /\ UNCHANGED <<recVars, hkVars, typVars, delivered>>

\* threading.Timer.run: the wait is over and the timer was not cancelled; from here
\* on cancel() has no effect
AgentTimerExpire ==
  \E id \in 1..Len(agent_timers) :
    /\ agent_timers[id] = "pending"
    /\ now >= agent_due[id]
    /\ agent_timers' = [agent_timers EXCEPT ![id] = "running"]
    /\ UNCHANGED <<is_listening, listening_mode, delay_timers, agent_buffer,
                   agent_buffer_timer, dispatched, agent_due, agent_procs, agent_appends,
                   last_disarm>>
    /\ UNCHANGED <<recVars, hkVars, typVars, delivered>>

\* flush_agent_buffer() on the Timer's thread: the locked block, then Popen
AgentFlush ==
  \E id \in 1..Len(agent_timers) :
    /\ agent_timers[id] = "running"
    /\ agent_timers' = [agent_timers EXCEPT ![id] = "fired"]
    /\ take_agent_buffer(id)
    /\ agent_procs' = IF agent_buffer = <<>> THEN agent_procs ELSE agent_procs + 1
    /\ UNCHANGED <<is_listening, listening_mode, delay_timers, agent_due, last_disarm>>
    /\ UNCHANGED <<recVars, hkVars, typVars, delivered>>

\* process.wait() returns: the subprocess has exited
AgentProcExit ==
  /\ agent_procs > 0
  /\ agent_procs' = agent_procs - 1
  /\ UNCHANGED <<is_listening, listening_mode, delay_timers, agent_buffer,
                 agent_buffer_timer, agent_timers, dispatched, agent_due, agent_appends,
                 last_disarm>>
  /\ UNCHANGED <<recVars, hkVars, typVars, delivered>>

\* the clock advances; a waiting flush Timer expires no later than its deadline's tick
TickAgent ==
  /\ now < MaxTimeAgent
  /\ \A id \in 1..Len(agent_timers) : agent_timers[id] = "pending" => now < agent_due[id]
  /\ now' = now + 1
  /\ UNCHANGED <<hk_budget, last_hotkey_time, pending_single_tap, presses, rotations, toggles,
                 hk_pc, time_since_last, tap_timers>>
  /\ UNCHANGED <<recVars, ctlVars, typVars, delivered>>

NextAgent ==
  \/ AgentTranscript
  \/ AgentTimerExpire
  \/ AgentFlush
  \/ AgentProcExit
  \/ TickAgent
  \/ Toggle
  \/ Rotate

SpecAgent == InitAgent /\ [][NextAgent]_vars

----------------------------------------------------------------------------
(* SpecLive: the system armed once (by a single or a double tap) and never   *)
(* disarmed, every final thread scheduled fairly                            *)

InitLive ==
  /\ InitRecorder(SmallCfg(500, FALSE), MaxFramesGate, MaxUttsSeg)
  /\ InitController
  /\ InitHotkey(1)
  /\ InitTyper(<<>>, 0)
  /\ delivered = <<>>

\* a step of the k-th _transcribe_final thread
FinalStep(k) ==
  /\ k \in 1..Len(finals)
  /\ \/ FinalStart(k)
     \/ FinalInferDone(k)
     \/ FinalDeliver(k)
     \/ FinalAgent(k)

SpecLive ==
  /\ InitLive
  /\ [][Next]_vars
  /\ \A k \in 1..MaxUttsSeg : WF_vars(FinalStep(k))

----------------------------------------------------------------------------
(* SpecVad: the capture callback with the detector's two stages: the system *)
(* is armed once and every frame gets some outcome of each stage            *)

NextVad ==
  \/ CallbackVad
  \/ CallbackEnd
  \/ Toggle
  \/ DelayTimerFire

SpecVad == InitLive /\ [][NextVad]_vars

----------------------------------------------------------------------------
(* SpecErr: the system armed once, two utterances, the preview worker and    *)
(* the final threads, each inference returning a text, nothing, or raising  *)

InitErr ==
  /\ InitRecorder(SmallCfg(500, TRUE), MaxFramesErr, MaxUttsErr)
  /\ InitController
  /\ InitHotkey(1)
  /\ InitTyper(<<>>, 0)
  /\ delivered = <<>>

SpecErr == InitErr /\ [][NextPreview]_vars

----------------------------------------------------------------------------
(* SpecFin: the system armed once, one utterance with typed previews, its    *)
(* final thread and the typer's worker                                      *)

InitFin ==
  /\ InitRecorder(SmallCfg(500, TRUE), MaxFramesScr, MaxUttsSeg)
  /\ InitController
  /\ InitHotkey(1)
  /\ InitTyper(<<>>, 0)
  /\ delivered = <<>>

SpecFin == InitFin /\ [][NextScreen]_vars

----------------------------------------------------------------------------
(* SpecSeg: the capture callback and the final threads in the default       *)
(* configuration (16 kHz, 512-sample frames), armed and resumed            *)

InitSeg ==
  \* the constructor's defaults
  /\ cfg = [sample_rate |-> 16000, buffer_size |-> 512, post_ms |-> 600, pre_ms |-> 1000,
            min_ms |-> 1100, enable_realtime_transcription |-> FALSE,
            type_realtime_preview |-> FALSE]
  /\ frame_budget = MaxFramesSeg
  /\ utt_budget = MaxUttsSeg
  /\ nframes = 0
  /\ cb_pc = "idle" /\ cb_chunk = 0 /\ cb_speech = FALSE
  /\ webrtc_checks = 0 /\ silero_checks = 0 /\ speech_detected_count = 0
  /\ vad_call = NoVadCall
  /\ stream_aborted = FALSE
  /\ InitPoller
  /\ is_paused = FALSE
  /\ cancel_pending_transcriptions = FALSE
  /\ is_recording = FALSE
  /\ frames = <<>>
  /\ silence_count = 0
  /\ audio_buffer = <<>>
  /\ recording_start_time = 0
  /\ finals = <<>>
  /\ rt_pc = "idle" /\ rt_audio = <<>> /\ rt_utt = 0 /\ rt_last_text = <<>>
  /\ utts = <<>>
  /\ is_listening = TRUE
  /\ listening_mode = "LISTEN"
  /\ delay_timers = <<>>
  /\ agent_buffer = <<>>
  /\ agent_buffer_timer = 0
  /\ agent_timers = <<>>
  /\ dispatched = <<>>
  /\ agent_due = <<>>
  /\ agent_procs = 0
  /\ agent_appends = <<>>
  /\ last_disarm = 0
  /\ InitHotkey(0)
  /\ InitTyper(<<>>, 0)
  /\ delivered = <<>>

NextSeg ==
  \/ CallbackBegin
  \/ CallbackEnd
  \/ FinalThread

SpecSeg == InitSeg /\ [][NextSeg]_vars

----------------------------------------------------------------------------
(* SpecHotkey: the hotkey handler, its single-tap Timer and the clock      *)

InitHotkeySpec ==
  /\ InitRecorder(SmallCfg(500, FALSE), 0, 0)
  /\ InitController
  /\ InitHotkey(MaxPresses)
  /\ InitTyper(<<>>, 0)
  /\ delivered = <<>>

NextHotkey ==
  \/ HotkeyRead
  \/ HotkeyAct
  \/ TimerExpire
  \/ handle_single_tap
  \/ Tick
  \/ DelayTimerFire

SpecHotkey == InitHotkeySpec /\ [][NextHotkey]_vars

----------------------------------------------------------------------------
(* SpecArm: SpecHotkey with the delayed _resume_audio / _pause_audio timers  *)
(* firing in any order                                                      *)

NextArm ==
  \/ HotkeyRead
  \/ HotkeyAct
  \/ TimerExpire
  \/ handle_single_tap
  \/ Tick
  \/ \E i \in 1..Len(delay_timers) : DelayTimerRun(i)

SpecArm == InitHotkeySpec /\ [][NextArm]_vars

----------------------------------------------------------------------------
(* SpecPoll: the v2 client, its hotkey, start timers and polling threads    *)

NextPoll ==
  \/ V2StartListening
  \/ V2StopListening
  \/ V2JoinReturn
  \/ V2TimerFire
  \/ \E i \in 1..Len(poll_threads) : PollCheck(i)
  \/ \E i \in 1..Len(poll_threads) : PollFetch(i)
  \/ \E i \in 1..Len(poll_threads) : PollWait(i)

SpecPoll == InitHotkeySpec /\ [][NextPoll]_vars

----------------------------------------------------------------------------
(* SpecTyper: the KeyboardTyper alone, its public methods called by any     *)
(* thread while the worker types                                           *)

HelloCommaWorld == <<"h", "e", "l", "l", "o", " ", "c", "o", "m", "m", "a", " ",
                     "w", "o", "r", "l", "d">>
FixThisNowUndo  == <<"f", "i", "x", " ", "t", "h", "i", "s", " ", "n", "o", "w", " ",
                     "u", "n", "d", "o">>

CommaMap == <<[word |-> <<"c", "o", "m", "m", "a">>, replacement |-> <<",">>]>>
UndoMap  == <<[word |-> <<"n", "o", "w", " ", "u", "n", "d", "o">>,
               replacement |-> <<"c", "t", "r", "l", "+", "z">>]>>

InitTyperSpec ==
  /\ InitRecorder(SmallCfg(500, FALSE), 0, 0)
  /\ InitController
  /\ InitHotkey(0)
  /\ \E wm \in ({(<<>>), CommaMap, UndoMap}) : \E fb \in ({0, 1}) : InitTyper(wm, fb)
  /\ delivered = <<>>

\* typer.type_final(text) called
CallTypeFinal ==
  /\ n_enqueued < MaxTasks
  /\ \E t \in ({HelloCommaWorld, FixThisNowUndo, (<<"H", "i", ".">>)}) : type_final(t, 0)
  /\ UNCHANGED <<word_mappings, wk_cur, wk_todo, preview_length, last_preview_text, screen,
                 exec_log, done_log, fail_budget, commit, clean, base, previews_since, key_log, pureVars>>
  /\ UNCHANGED <<recVars, ctlVars, hkVars, delivered>>

\* typer.type_realtime_preview(text) called
CallTypePreview ==
  /\ n_enqueued < MaxTasks
  /\ \E t \in ({<<"h", "i">>, <<"h", "e", "l", "l", "o">>}) : type_realtime_preview(t, 0)
  /\ UNCHANGED <<word_mappings, wk_cur, wk_todo, preview_length, last_preview_text, screen,
                 exec_log, done_log, fail_budget, commit, clean, base, previews_since, key_log, pureVars>>
  /\ UNCHANGED <<recVars, ctlVars, hkVars, delivered>>

\* typer.type_text(text) called
CallTypeText ==
  /\ n_enqueued < MaxTasks
  /\ \E t \in ({<<"o", "k">>}) : type_text(t)
  /\ UNCHANGED <<word_mappings, wk_cur, wk_todo, preview_length, last_preview_text, screen,
                 exec_log, done_log, fail_budget, commit, clean, base, previews_since, key_log, pureVars>>
  /\ UNCHANGED <<recVars, ctlVars, hkVars, delivered>>

\* typer.press_backspace(count) called: queued unless count <= 0
CallPressBackspace ==
  /\ n_enqueued < MaxTasks
  /\ \E c \in ({1}) :
       IF c <= 0
         THEN UNCHANGED <<output_queue, n_enqueued>>
         ELSE /\ output_queue' = Append(output_queue, NewTask("backspace", <<>>, c, 0))
              /\ n_enqueued' = n_enqueued + 1
  /\ UNCHANGED <<word_mappings, wk_cur, wk_todo, preview_length, last_preview_text, screen,
                 exec_log, done_log, fail_budget, commit, clean, base, previews_since, key_log, pureVars>>
  /\ UNCHANGED <<recVars, ctlVars, hkVars, delivered>>

NextTyper ==
  \/ CallTypeFinal
  \/ CallTypePreview
  \/ CallTypeText
  \/ CallPressBackspace
  \/ WorkerTake
  \/ WorkerKey
  \/ WorkerKeyFail
  \/ WorkerDone

SpecTyper == InitTyperSpec /\ [][NextTyper]_vars

----------------------------------------------------------------------------
(* SpecPure: _apply_word_mappings and should_discard applied to texts put    *)
(* together from a few tokens                                               *)

EndWord         == <<"e", "n", "d">>
EndOfSentence   == <<"e", "n", "d", " ", "o", "f", " ", "s", "e", "n", "t", "e", "n", "c", "e">>
ShortAction     == <<"X">>
LongAction      == <<"c", "t", "r", "l", "+", "e">>
EndMap    == <<[word |-> EndWord, replacement |-> ShortAction],
               [word |-> EndOfSentence, replacement |-> LongAction]>>
EndMapRev == <<[word |-> EndOfSentence, replacement |-> LongAction],
               [word |-> EndWord, replacement |-> ShortAction]>>
\* two words of the same length whose matches can overlap
TieMapA   == <<[word |-> <<"e", "n", "d", " ", "o", "f">>, replacement |-> <<"A">>],
               [word |-> <<"o", "f", " ", "e", "n", "d">>, replacement |-> <<"B">>]>>
TieMapB   == <<TieMapA[2], TieMapA[1]>>

RECURSIVE JoinTokens(_)
JoinTokens(toks) == IF toks = <<>> THEN <<>> ELSE Head(toks) \o JoinTokens(Tail(toks))

\* the text argument
FnText == JoinTokens(fn_tokens)

InitPure ==
  /\ InitRecorder(SmallCfg(500, FALSE), 0, 0)
  /\ InitController
  /\ InitHotkey(0)
  /\ \E wm \in ({EndMap, EndMapRev, TieMapA, TieMapB}) : InitTyper(wm, 0)
  /\ delivered = <<>>

\* the caller's text grows by one token
AddToken ==
  /\ fn_out = NoOut
  /\ Len(fn_tokens) < MaxTokens
  /\ \E tok \in { <<"e", "n", "d", " ">>, <<"E", "n", "d", " ">>, <<"o", "f", " ">>,
                   <<"s", "e", "n", "t", "e", "n", "c", "e", " ">>,
                   <<"s", "e", "n", "t", "e", "n", "c", "e", ".">>,
                   <<"w", "e", "e", "k">>, <<"y", "o", "u">>, <<".">> } :
       fn_tokens' = Append(fn_tokens, tok)
  /\ UNCHANGED <<fn_out, vadVars, pollVars>>
  /\ UNCHANGED <<word_mappings, output_queue, n_enqueued, wk_cur, wk_todo, preview_length,
                 last_preview_text, screen, exec_log, done_log, fail_budget, commit,
                 clean, base, previews_since, key_log>>
  /\ UNCHANGED <<recVars, ctlVars, hkVars, delivered>>

\* self._apply_word_mappings(text) is called and returns
CallApplyWordMappings ==
  /\ fn_out = NoOut
  /\ fn_out' = [fn |-> "map", items |-> apply_word_mappings(word_mappings, FnText)]
  /\ UNCHANGED <<fn_tokens, vadVars, pollVars>>
  /\ UNCHANGED <<word_mappings, output_queue, n_enqueued, wk_cur, wk_todo, preview_length,
                 last_preview_text, screen, exec_log, done_log, fail_budget, commit,
                 clean, base, previews_since, key_log>>
  /\ UNCHANGED <<recVars, ctlVars, hkVars, delivered>>

\* typer.should_discard(text) is called and returns
CallShouldDiscard ==
  /\ fn_out = NoOut
  /\ fn_out' = [fn |-> "discard", result |-> should_discard(FnText)]
  /\ UNCHANGED <<fn_tokens, vadVars, pollVars>>
  /\ UNCHANGED <<word_mappings, output_queue, n_enqueued, wk_cur, wk_todo, preview_length,
                 last_preview_text, screen, exec_log, done_log, fail_budget, commit,
                 clean, base, previews_since, key_log>>
  /\ UNCHANGED <<recVars, ctlVars, hkVars, delivered>>

NextPure ==
  \/ AddToken
  \/ CallApplyWordMappings
  \/ CallShouldDiscard

SpecPure == InitPure /\ [][NextPure]_vars

----------------------------------------------------------------------------
(* Properties *)

\* C1 (cancel-on-disarm): a final transcript of an utterance that was open, or whose
\* final inference was in flight, when pause() set the cancel flag is never typed and
\* never agent-buffered, whatever happens later (re-arming included).
C1_CancelOnDisarm ==
  \A i \in 1..Len(delivered) : ~delivered[i].cancelled

\* C7 (final ordering): final transcripts reach their consumer in utterance-close
\* order: the k-th closed utterance is never delivered after a later one.
C7_FinalOrder ==
  \A i, j \in 1..Len(delivered) : i < j => delivered[i].k < delivered[j].k

\* C5 (minimum-duration drop): an utterance dropped at close for being shorter than
\* min_length_of_recording fired on_recording_start once, never fired
\* on_recording_stop, and no transcript (final or preview) was emitted or typed for it.
C5_MinDurationDrop ==
  \A u \in 1..Len(utts) :
    utts[u].state = "dropped" =>
      /\ utts[u].starts = 1
      /\ utts[u].stops = 0
      /\ ~utts[u].preview
      /\ ~utts[u].preview_typed
      /\ \A k \in 1..Len(finals) : finals[k].utt # u
      /\ \A i \in 1..Len(output_queue) : output_queue[i].utt # u

\* C4 (silence-gated closure): silence_run counts the consecutive non-speech frames
\* since the utterance's last speech frame, and the utterance closes exactly when it
\* first reaches ceil(sample_rate / F * post_speech_silence_duration) (19 frames for
\* 16000 Hz, F = 512, 0.6 s).
C4_SilenceGatedClosure ==
  /\ (is_recording /\ cb_pc = "idle") =>
        silence_count = (nframes - 1) - utts[Len(utts)].last_speech
  /\ \A u \in 1..Len(utts) :
        utts[u].close_frame # -1 => utts[u].close_silence =
           (cfg.sample_rate * cfg.post_ms + cfg.buffer_size * 1000 - 1)
              \div (cfg.buffer_size * 1000)

\* C8 (pre-roll completeness): when the ring was full at onset, the audio handed to
\* the final model starts at least pre_recording_buffer_duration - F/sample_rate
\* before the onset frame.
C8_PreRollCompleteness ==
  \A k \in 1..Len(finals) :
    LET u == utts[finals[k].utt] IN
      (u.ring = audio_buffer_maxlen(cfg) /\ u.ring > 0) =>
        (u.onset - finals[k].audio[1]) * cfg.buffer_size * 1000
           >= cfg.pre_ms * cfg.sample_rate - cfg.buffer_size * 1000

\* C9 (exactly-once frame delivery): the audio handed to the final model is the
\* pre-roll followed by every frame from onset to close, in arrival order, each frame
\* once.
C9_ExactlyOnce ==
  \A k \in 1..Len(finals) :
    LET a == finals[k].audio
        u == utts[finals[k].utt]
    IN  /\ \A i \in 1..(Len(a) - 1) : a[i + 1] = a[i] + 1
        /\ a[1] <= u.onset
        /\ a[Len(a)] = u.close_frame

\* C6 (double-tap exclusivity): two presses less than double_tap_window apart produce
\* exactly one mode rotation and no arm/disarm toggle (the first press's single-tap
\* timer never fires); two presses more than double_tap_window apart produce exactly
\* two toggles and no rotation.
C6_DoubleTapExclusivity ==
  Len(presses) = 2 =>
    /\ (presses[2] - presses[1] < double_tap_window) =>
         /\ toggles = 0
         /\ tap_timers[1].st \in {"waiting", "cancelled"}
         /\ hk_pc = "idle" => rotations = 1
    /\ (presses[2] - presses[1] > double_tap_window /\ hk_pc = "idle"
          /\ \A i \in 1..Len(tap_timers) : tap_timers[i].st \in {"cancelled", "done"}) =>
         /\ toggles = 2
         /\ rotations = 0

\* C2 (order preservation): the worker executes the enqueued tasks one at a time in
\* enqueue order, whoever enqueued them: tasks complete in the order 1, 2, 3, ...,
\* the task in hand is the next one, the queue holds the following ones in order, and
\* the keys injected for one task are never followed by keys of an earlier task.
C2_OrderPreservation ==
  /\ \A i \in 1..Len(done_log) : done_log[i] = i
  /\ \A i \in 1..(Len(exec_log) - 1) : exec_log[i] < exec_log[i + 1]
  /\ wk_cur # NoTask => wk_cur.seq = Len(done_log) + 1
  /\ wk_cur = NoTask => wk_todo = <<>>
  /\ \A i \in 1..Len(output_queue) :
       output_queue[i].seq = Len(done_log) + (IF wk_cur # NoTask THEN 1 ELSE 0) + i
  /\ \A i \in 1..Len(exec_log) : exec_log[i] <= Len(done_log) + 1

\* two tasks are done, a type_final is being typed as the third and keys of all three
\* have been injected
C2_Witness ==
  /\ done_log = <<1, 2>>
  /\ exec_log = <<1, 2, 3>>
  /\ wk_cur.type = "type_final"
  /\ wk_todo # <<>>

RECURSIVE TypedChars(_)
\* the characters that typing a list of items adds (hotkey items add none)
TypedChars(items) ==
  IF items = <<>> THEN <<>>
  ELSE (IF Head(items).hotkey THEN <<>> ELSE Head(items).s) \o TypedChars(Tail(items))

\* C3 (preview retraction): when a type_final for text X completes, with every key
\* injection since the previous final succeeding and only previews in between, the
\* characters on screen are those at the previous final followed by
\* apply_word_mappings(X) and one space, however many previews were typed.  The record
\* of a completed final is written by WorkerDone, which leaves the worker idle, so it
\* is examined in the idle states.
C3_PreviewRetraction ==
  (wk_cur = NoTask /\ commit.n > 0 /\ commit.clean) =>
    commit.screen = commit.base \o TypedChars(apply_word_mappings(word_mappings, commit.text))
                      \o <<" ">>

\* a final for "hello comma world" completed after two previews, under the comma map
C3_Witness ==
  /\ wk_cur = NoTask
  /\ commit.n > 0
  /\ commit.clean
  /\ commit.previews = 2
  /\ commit.text = HelloCommaWorld
  /\ word_mappings = CommaMap

\* C10 (S3, punctuation substitution spacing): with the word map {"comma": ","} the
\* final text "hello comma world" is typed as exactly "hello, world ".
C10_PunctuationSpacing ==
  (commit.n > 0 /\ commit.clean /\ word_mappings = CommaMap
     /\ commit.text = HelloCommaWorld) =>
    commit.screen = commit.base \o <<"h", "e", "l", "l", "o", ",", " ",
                                     "w", "o", "r", "l", "d", " ">>

\* the number of places where the phrase w occurs in t as whole words, in any case
Occurrences(t, w) == Cardinality({i \in 1..Len(t) : MatchesAt(t, w, i)})
CountItems(items, it) == Cardinality({i \in 1..Len(items) : items[i] = it})
EndAlone(t) == Cardinality({i \in 1..Len(t) : MatchesAt(t, EndWord, i)
                                              /\ ~MatchesAt(t, EndOfSentence, i)})

\* C11 (substitution determinism): the phrases are applied longest first, equal
\* lengths in insertion order; with the entries "end" and "end of sentence", in either
\* insertion order, every occurrence of "end of sentence" in the text becomes the longer
\* entry's action and only the other occurrences of "end" become the shorter entry's.
C11_SubstitutionDeterminism ==
  /\ LET ms    == sorted_mappings(word_mappings)
         At(m) == CHOOSE i \in 1..Len(word_mappings) : word_mappings[i] = m
     IN  /\ Len(ms) = Len(word_mappings)
         /\ \A i, j \in 1..Len(ms) :
              i < j => /\ Len(ms[i].word) >= Len(ms[j].word)
                       /\ Len(ms[i].word) = Len(ms[j].word) => At(ms[i]) < At(ms[j])
  /\ (fn_out.fn = "map" /\ word_mappings \in {EndMap, EndMapRev}) =>
       /\ CountItems(fn_out.items, [hotkey |-> TRUE, s |-> LongAction])
            = Occurrences(FnText, EndOfSentence)
       /\ CountItems(fn_out.items, [hotkey |-> FALSE, s |-> ShortAction]) = EndAlone(FnText)
  /\ (fn_out.fn = "map" /\ FnText = <<"e", "n", "d", " ", "o", "f", " ", "e", "n", "d", " ">>) =>
       /\ word_mappings = TieMapA =>
            fn_out.items = <<[hotkey |-> FALSE, s |-> <<"A">>],
                             [hotkey |-> FALSE, s |-> <<"e", "n", "d", " ">>]>>
       /\ word_mappings = TieMapB =>
            fn_out.items = <<[hotkey |-> FALSE, s |-> <<"e", "n", "d", " ">>],
                             [hotkey |-> FALSE, s |-> <<"B">>]>>

\* "end" was inserted before "end of sentence", and the text holds both an
\* "end of sentence" and an "end" on its own
C11_Witness ==
  /\ fn_out.fn = "map"
  /\ word_mappings = EndMap
  /\ Occurrences(FnText, EndOfSentence) >= 1
  /\ EndAlone(FnText) >= 1

\* the injection log of typing t character by character
CharKeys(t) == [i \in 1..Len(t) |-> [op |-> "char", key |-> <<t[i]>>]]

RECURSIVE ItemKeys(_)
\* the injection log of a list of items taken in order: the characters of a string,
\* the presses then the releases of a chord
ItemKeys(items) ==
  IF items = <<>> THEN <<>>
  ELSE (IF Head(items).hotkey
          THEN LET ops == execute_hotkey(Head(items).s, 0)
               IN  [i \in 1..Len(ops) |-> [op |-> ops[i].op, key |-> ops[i].key]]
          ELSE CharKeys(Head(items).s))
         \o ItemKeys(Tail(items))

\* C12 (S4, action ordering within a final): the text chunks and chords that the
\* substitution produces are injected in the order they occur in the utterance, then
\* the trailing space; for the word map {"now undo": "ctrl+z"} and the text
\* "fix this now undo" the injection log is "fix this ", the chord Ctrl+Z, one space.
C12_ActionOrdering ==
  (wk_cur = NoTask /\ commit.n > 0 /\ commit.clean /\ commit.previews = 0) =>
    /\ commit.log = ItemKeys(apply_word_mappings(word_mappings, commit.text))
                      \o CharKeys(<<" ">>)
    /\ (word_mappings = UndoMap /\ commit.text = FixThisNowUndo) =>
         commit.log = CharKeys(<<"f", "i", "x", " ", "t", "h", "i", "s", " ">>)
                        \o <<[op |-> "press",   key |-> <<"c", "t", "r", "l">>],
                             [op |-> "press",   key |-> <<"z">>],
                             [op |-> "release", key |-> <<"z">>],
                             [op |-> "release", key |-> <<"c", "t", "r", "l">>]>>
                        \o CharKeys(<<" ">>)

\* the final "fix this now undo" was typed under the undo map with no preview on screen
C12_Witness ==
  /\ wk_cur = NoTask
  /\ commit.n > 0
  /\ commit.clean
  /\ commit.previews = 0
  /\ word_mappings = UndoMap
  /\ commit.text = FixThisNowUndo
  /\ Len(commit.log) = 14

\* C13 (discard idempotence): for every text x, should_discard(x) equals
\* should_discard(normalize(x)), the texts that normalize to the empty string
\* (such as "...") included.
C13_DiscardIdempotence ==
  fn_out.fn = "discard" => fn_out.result = should_discard(normalize(FnText))

\* C14 (discard filter placement): every final transcript passes through the discard
\* filter before the mode dispatch, so a final whose normalized text is a discard
\* phrase is never typed and never appended to the agent buffer.
C14_DiscardFilterPlacement ==
  \A i \in 1..Len(delivered) : ~should_discard(delivered[i].text)

\* C15 (stale preview suppression): a preview inference that completes after its
\* utterance has closed, or after a later utterance has opened, is discarded: no
\* preview is emitted for an utterance that is no longer open.
C15_StalePreviewSuppression ==
  \A u \in 1..Len(utts) : ~utts[u].stale_preview

\* C16 (disarm wins the open/disarm tie): for every interleaving of the audio callback
\* with pause(), once pause() has returned and the callback that was in progress has
\* finished, is_recording is false and no frames are retained.
C16_DisarmWinsTie ==
  (is_paused /\ cb_pc = "idle") => (~is_recording /\ frames = <<>>)

\* C20 (agent buffer discarded on disarm and rotation): whenever the system is disarmed
\* or the mode is LISTEN, and no delivery is between its mode test and the end of
\* handle_agent_transcription, the agent buffer is empty and no flush timer is armed.
C20_AgentBufferDiscarded ==
  ( /\ ~is_listening \/ listening_mode = "LISTEN"
    /\ \A k \in 1..Len(finals) : finals[k].pc \notin {"deliver", "agent"} )
  => (agent_buffer = <<>> /\ agent_buffer_timer = 0)

\* the typer has nothing queued and no task in hand
QueueDrained == output_queue = <<>> /\ wk_cur = NoTask

\* C17 (PreviewState reset on disarm): after a disarm completes (pause() has run and
\* the typer's queue is drained) the typer's preview length is 0 and no preview text
\* of the cancelled utterance remains on the screen.
C17_PreviewResetOnDisarm ==
  (~is_listening /\ is_paused /\ delay_timers = <<>> /\ QueueDrained)
    => (preview_length = 0 /\ ~(\E i \in 1..Len(screen) : screen[i] = "p"))

\* C18 (rotation flushes the preview): a rotation from LISTEN to AGENT made while a
\* preview is on the screen issues that many Backspaces to the typer.
C18_RotationFlushesPreview ==
  [][ ( /\ listening_mode = "LISTEN" /\ listening_mode' = "AGENT"
        /\ QueueDrained /\ preview_length > 0 )
      => \E i \in 1..Len(output_queue') :
           /\ output_queue'[i].type = "backspace"
           /\ output_queue'[i].count = preview_length ]_vars

\* C19 (paused frames are dropped): a frame that arrives while the recorder is paused
\* leaves the pre-recording buffer, the frames list, the silence counter, the
\* recording flag and the VAD's verdict state unchanged.
C19_PausedFramesDropped ==
  [][ (is_paused /\ nframes' # nframes)
      => UNCHANGED <<audio_buffer, frames, silence_count, is_recording,
                     recording_start_time, cb_pc, cb_chunk, cb_speech, utts>> ]_vars

\* a frame newer than every frame of a non-empty pre-recording buffer has arrived and
\* is not in it: it arrived while paused
C19_Witness ==
  /\ is_paused
  /\ cb_pc = "idle"
  /\ audio_buffer # <<>>
  /\ nframes > Last(audio_buffer) + 1

\* C21 (agent silence debounce): a flush dispatches text only when no transcript has
\* been appended for agent_buffer_timeout: the timer that causes a dispatch is the one
\* armed last (never a superseded one), and no dispatched transcript was appended less
\* than agent_buffer_timeout before the dispatch.
C21_AgentSilenceDebounce ==
  \A i \in 1..Len(dispatched) :
    LET d == dispatched[i] IN
      /\ d.timer = d.current
      /\ \A j \in 1..Len(d.appends) : d.at - d.appends[j].at >= agent_buffer_timeout

\* C22 (buffering during subprocess execution): nothing is dispatched while an agent
\* subprocess runs, so at most one agent subprocess is running at any time.
C22_OneSubprocess ==
  /\ agent_procs <= 1
  /\ \A i \in 1..Len(dispatched) : dispatched[i].procs = 0

RECURSIVE JoinSpace(_)
\* the texts of a sequence of appends, in order, joined by single spaces
JoinSpace(as) ==
  IF as = <<>> THEN <<>>
  ELSE IF Len(as) = 1 THEN as[1].text
  ELSE as[1].text \o <<" ">> \o JoinSpace(Tail(as))

\* C23 (agent prompt content): the prompt of a flush is exactly the final transcripts
\* received in Agent mode since the previous flush or discard, in arrival order, joined
\* by single spaces with no leading separator; no transcript is in two prompts, and the
\* buffer holds exactly the transcripts received since it was last emptied (nothing
\* after a flush took it), with a flush Timer still to run while it holds any.
C23_AgentPromptContent ==
  /\ agent_buffer = JoinSpace(agent_appends)
  /\ agent_buffer # <<>> =>
       \E id \in 1..Len(agent_timers) : agent_timers[id] \in {"pending", "running"}
  /\ \A j \in 1..(Len(agent_appends) - 1) : agent_appends[j].n < agent_appends[j + 1].n
  /\ \A i \in 1..Len(dispatched) :
       LET d == dispatched[i] IN
         /\ d.appends # <<>>
         /\ d.prompt = JoinSpace(d.appends)
         /\ \A j \in 1..(Len(d.appends) - 1) : d.appends[j].n < d.appends[j + 1].n
         /\ i < Len(dispatched) =>
              d.appends[Len(d.appends)].n < dispatched[i + 1].appends[1].n
         /\ agent_appends # <<>> => d.appends[Len(d.appends)].n < agent_appends[1].n

\* a prompt of two transcripts was dispatched, then a second prompt
C23_Witness ==
  /\ Len(dispatched) >= 2
  /\ Len(dispatched[1].appends) = 2
  /\ agent_buffer = <<>>

\* the number of times the k-th final thread's transcript reached the consumer
DeliveredCount(k) == Cardinality({i \in 1..Len(delivered) : delivered[i].k = k})

\* C24 (final is never dropped): every utterance that closes having passed the
\* minimum-duration gate, with no disarm before delivery, eventually has its final
\* inference run, and its final thread eventually ends having delivered the transcript
\* exactly once if the model returned a non-empty text.
C24_FinalNeverDropped ==
  \A k \in 1..MaxUttsSeg :
    /\ (k <= Len(finals) /\ finals[k].pc = "start")
         ~> (k <= Len(finals) /\ finals[k].pc = "infer")
    /\ (k <= Len(finals)) ~>
         ( /\ k <= Len(finals)
           /\ finals[k].pc = "done"
           /\ finals[k].text # <<>> => DeliveredCount(k) = 1 )
    /\ [](DeliveredCount(k) <= 1)

\* a final thread has ended after delivering a non-empty transcript
C24_Witness ==
  /\ Len(finals) >= 1
  /\ finals[1].pc = "done"
  /\ finals[1].text # <<>>
  /\ DeliveredCount(1) = 1

\* C25 (PreRoll capacity): the pre-recording ring's capacity N, in frames of F samples,
\* satisfies N * F / sample_rate >= pre_recording_buffer_duration for the configured
\* values (16000 Hz, F = 512 and 1.0 s require N >= 32).
C25_PreRollCapacity ==
  audio_buffer_maxlen(cfg) * cfg.buffer_size * 1000 >= cfg.pre_ms * cfg.sample_rate

\* C26 (disarm clears capture state): after a disarm followed by a re-arm, every frame
\* of a later utterance, pre-roll included, was captured after the re-arm's resume: once
\* the system is armed and resumed again, neither the frames being recorded nor the
\* pre-recording buffer hold a frame captured before the disarm.
C26_DisarmClearsCapture ==
  (is_listening /\ ~is_paused /\ delay_timers = <<>> /\ cb_pc = "idle") =>
    /\ \A i \in 1..Len(frames) : frames[i] >= last_disarm
    /\ \A i \in 1..Len(audio_buffer) : audio_buffer[i] >= last_disarm

\* C27 (arming delay): after an arm action the gate stays PAUSED until the arm's
\* listening_state_delay_ms timer fires, so no frame reaches the pre-recording buffer or
\* the VAD in between: while a _resume_audio timer is waiting, the recorder is paused.
C27_ArmingDelay ==
  (\E i \in 1..Len(delay_timers) : delay_timers[i] = "resume") => is_paused

\* C28 (double-tap action): a double tap rotates the mode LISTEN -> AGENT -> LISTEN, so
\* two consecutive double taps restore the mode; a disarmed system becomes armed (its
\* _resume_audio timer is started) and an armed one stays armed, with no timer started.
\* Nothing else changes the mode.
C28_DoubleTapAction ==
  [][ /\ (rotations' # rotations) =>
           /\ listening_mode' = (IF listening_mode = "LISTEN" THEN "AGENT" ELSE "LISTEN")
           /\ is_listening'
           /\ IF is_listening THEN delay_timers' = delay_timers
                              ELSE delay_timers' = Append(delay_timers, "resume")
      /\ listening_mode' = (IF rotations' % 2 = 0 THEN "LISTEN" ELSE "AGENT") ]_vars

\* two double taps were made, the first of them while disarmed
C28_Witness ==
  /\ rotations = 2
  /\ toggles = 0
  /\ listening_mode = "LISTEN"
  /\ is_listening

\* C29 (two-stage VAD gating): every is_speech call counts one coarse check; the precise
\* stage is invoked exactly when the coarse stage returned speech or raised; a coarse
\* rejection yields (is_speech = false, confidence = 0); is_speech is true only when the
\* precise probability is strictly above the threshold; and so
\* speech_detected_count <= silero_checks <= webrtc_checks.
C29_TwoStageGating ==
  [][ /\ speech_detected_count' <= silero_checks'
      /\ silero_checks' <= webrtc_checks'
      /\ (webrtc_checks' # webrtc_checks) =>
           LET c == vad_call'
           IN  /\ webrtc_checks' = webrtc_checks + 1
               /\ silero_checks' \in {silero_checks, silero_checks + 1}
               /\ (silero_checks' = silero_checks + 1) <=> (c.coarse \in {"speech", "error"})
               /\ (c.coarse = "silence") =>
                    /\ ~c.r.raised /\ ~c.r.is_speech /\ c.r.confidence = 0
                    /\ cb_pc' = "classified" /\ ~cb_speech'
               /\ speech_detected_count' \in {speech_detected_count, speech_detected_count + 1}
               /\ (speech_detected_count' = speech_detected_count + 1) <=> c.r.is_speech
               /\ c.r.is_speech =>
                    /\ silero_checks' = silero_checks + 1
                    /\ ~c.precise_err
                    /\ c.prob > silero_sensitivity
               /\ (cb_pc' = "classified") => (cb_speech' = c.r.is_speech)
      /\ (webrtc_checks' = webrtc_checks) =>
           (silero_checks' = silero_checks /\ speech_detected_count' = speech_detected_count)
    ]_vars

\* a coarse rejection, a precise rejection at the threshold itself and a detection were seen
C29_Witness ==
  /\ webrtc_checks >= 3
  /\ silero_checks = 2
  /\ speech_detected_count = 1
  /\ vad_call.coarse \in {"speech", "error"}
  /\ ~vad_call.precise_err
  /\ vad_call.prob = silero_sensitivity
  /\ ~vad_call.r.is_speech

\* C30 (precise-stage VAD error): a frame whose precise stage raised is treated as
\* non-speech (while an utterance is recording it is appended to it as a silent frame, or
\* it closes the utterance), and the capture goes on.
C30_PreciseErrorIsNonSpeech ==
  (vad_call.r.raised /\ cb_pc = "idle") =>
     /\ ~stream_aborted
     /\ vad_call.recording =>
          \/ \E i \in 1..Len(frames) : frames[i] = vad_call.chunk
          \/ \E u \in 1..Len(utts) : utts[u].close_frame = vad_call.chunk

\* C31 (model error): an inference of the final or of the preview model that raises is
\* treated as an empty transcript: the final thread ends with no text and nothing is
\* typed or buffered for it, the preview worker emits nothing; no error is ever emitted
\* as a text; and the pipeline continues: the step at which a model raises leaves the
\* preview worker in its loop and every other final thread, the segmenter and the gate
\* as they were.
C31_ModelError ==
  /\ [](\A k \in 1..Len(finals) :
          /\ finals[k].raised =>
               /\ finals[k].pc = "done"
               /\ finals[k].text = <<>>
               /\ DeliveredCount(k) = 0
               /\ \A i \in 1..Len(output_queue) :
                    ~(output_queue[i].type = "type_final" /\ output_queue[i].utt = finals[k].utt)
          /\ finals[k].text # ModelError)
  /\ [](/\ rt_last_text # ModelError
        /\ \A i \in 1..Len(output_queue) : output_queue[i].text # ModelError
        /\ \A i \in 1..Len(delivered) : delivered[i].text # ModelError
        /\ \A i \in 1..Len(agent_appends) : agent_appends[i].text # ModelError)
  /\ [][ (\E u \in 1..Len(utts) : ~utts[u].preview_error /\ utts'[u].preview_error) =>
            /\ rt_pc' = "idle"
            /\ UNCHANGED <<rt_last_text, output_queue, n_enqueued, delivered, agent_buffer,
                           finals, is_recording, frames, is_paused,
                           cancel_pending_transcriptions>> ]_vars
  /\ [][ \A k \in 1..Len(finals) : (~finals[k].raised /\ finals'[k].raised) =>
            /\ \A j \in 1..Len(finals) : j # k => finals'[j] = finals[j]
            /\ UNCHANGED <<rt_pc, rt_last_text, output_queue, n_enqueued, delivered,
                           agent_buffer, utts, is_recording, frames, is_paused,
                           cancel_pending_transcriptions>> ]_vars

\* the first utterance's final inference raised and a preview inference of it raised; a
\* preview was still typed later, and the second utterance was transcribed and delivered
C31_Witness ==
  /\ Len(finals) = 2
  /\ finals[1].raised
  /\ utts[1].preview_error
  /\ utts[2].preview_typed
  /\ finals[2].pc = "done"
  /\ DeliveredCount(2) = 1

\* C32 (keystroke error): when the injection of a character fails, only that character
\* is skipped: the rest of the task's keys are still to be injected, and when the task
\* ends all its characters but the failed one have been injected; the worker ends a task
\* only when nothing of it is left, and once the queue is drained every task enqueued
\* has been executed, whether an injection failed or not.
C32_KeystrokeError ==
  /\ [][ (fail_budget' # fail_budget /\ Head(wk_todo).op = "char") =>
            /\ wk_todo' = Tail(wk_todo)
            /\ UNCHANGED <<wk_cur, output_queue, done_log, screen, preview_length>> ]_vars
  /\ [][ (wk_cur # NoTask /\ wk_cur' = NoTask) =>
            /\ wk_todo = <<>>
            /\ done_log' = Append(done_log, wk_cur.seq)
            /\ LET ops   == TaskOps(wk_cur)
                   chars == Cardinality({i \in 1..Len(ops) : ops[i].op = "char"})
                   typed == Cardinality({i \in 1..Len(key_log) : key_log[i].op = "char"})
               IN  /\ typed <= chars
                   /\ typed >= chars - 1
                   /\ fail_budget > 0 => typed = chars ]_vars
  /\ []((output_queue = <<>> /\ wk_cur = NoTask) => Len(done_log) = n_enqueued)

\* the injection of one of the three characters of a final failed, the other two were
\* typed, and a preview enqueued after it has been executed
C32_Witness ==
  /\ fail_budget = 0
  /\ commit.n = 1
  /\ commit.text = <<"H", "i", ".">>
  /\ previews_since = 1
  /\ wk_cur = NoTask
  /\ Cardinality({i \in 1..Len(commit.log) : commit.log[i].op = "char"}) = 2

\* C33 (empty final): when the final model returns no text for an utterance, the final
\* thread ends without calling the consumer: no type_final task is enqueued, nothing is
\* typed or retracted, and the preview state is left as it is; so once everything is
\* drained a preview typed for that utterance is still on the screen, with
\* preview_length its length.
C33_EmptyFinal ==
  /\ [][ \A k \in 1..Len(finals) :
           (finals[k].pc = "infer" /\ finals'[k].pc # "infer" /\ finals'[k].text = <<>>) =>
              /\ finals'[k].pc = "done"
              /\ UNCHANGED <<output_queue, n_enqueued, delivered, screen, preview_length,
                             last_preview_text, wk_cur, wk_todo, exec_log, agent_buffer>> ]_vars
  /\ [](/\ \A i \in 1..Len(output_queue) :
             output_queue[i].type = "type_final" => output_queue[i].text # <<>>
        /\ wk_cur.type = "type_final" => wk_cur.text # <<>>
        /\ \A i \in 1..Len(delivered) : delivered[i].text # <<>>
        /\ \A k \in 1..Len(finals) :
             finals[k].pc \in {"deliver", "agent"} => finals[k].text # <<>>)
  /\ []((/\ Len(finals) = 1 /\ finals[1].pc = "done" /\ finals[1].text = <<>>
         /\ utts[1].preview_typed
         /\ rt_pc = "idle" /\ output_queue = <<>> /\ wk_cur = NoTask)
          => /\ commit.n = 0
             /\ preview_length = Len(last_preview_text)
             /\ preview_length > 0
             /\ screen = last_preview_text)

\* the final model returned nothing for an utterance whose preview had been typed, and
\* everything is drained
C33_Witness ==
  /\ Len(finals) = 1 /\ finals[1].pc = "done" /\ finals[1].text = <<>>
  /\ ~finals[1].raised
  /\ utts[1].preview_typed
  /\ rt_pc = "idle" /\ output_queue = <<>> /\ wk_cur = NoTask
  /\ screen = <<"p", "2">>

\* C34 (trailing period trim): a final text ending in "." is typed without that period,
\* whatever the word mappings are, the empty ones included: when the typing of such a
\* final completes with every injection succeeding, the character before the appended
\* space is not that period.
C34_TrailingPeriodTrim ==
  ( /\ wk_cur = NoTask
    /\ commit.n >= 1
    /\ commit.clean
    /\ commit.text = <<"H", "i", ".">> )
    => commit.screen[Len(commit.screen) - 1] # "."

C36_AgentModeNoKeystrokes ==
  [][ (listening_mode = "AGENT" /\ listening_mode' = "AGENT") =>
         (n_enqueued' = n_enqueued /\ Len(output_queue') <= Len(output_queue)) ]_vars

\* C37 (preview length accuracy): once a task has completed, preview_length is the number
\* of preview characters on the screen, also when an injection failed.  Stated where the
\* screen holds nothing but preview characters: the worker is idle, no final was typed
\* and every completed task was a preview.
C37_PreviewLengthAccuracy ==
  (wk_cur = NoTask /\ commit.n = 0 /\ Len(done_log) = previews_since)
     => preview_length = Len(screen)

\* C38 (no key left held by a chord): in the keys injected by a completed type_final,
\* every key that was pressed is released afterwards.
C38_NoKeyLeftHeld ==
  \A i \in 1..Len(commit.log) :
     commit.log[i].op = "press" =>
        \E j \in (i + 1)..Len(commit.log) :
           commit.log[j].op = "release" /\ commit.log[j].key = commit.log[i].key

\* C39 (single poller, v2 client): at most one polling thread is running at any time.
C39_SinglePoller ==
  Cardinality({i \in 1..Len(poll_threads) : poll_threads[i] # "dead"}) <= 1
====
